---------------------------- MODULE Spec2Model ----------------------------
(***************************************************************************)
(* Model of the client library of the lending front end                    *)
(* (frontend/src/lib/anchor: client.ts and transactions.ts).               *)
(*                                                                         *)
(* Texts are sequences of one-character strings, so that trimming, the     *)
(* regular expressions, split, padEnd and slice are computed character by  *)
(* character as the JavaScript does.                                       *)
(***************************************************************************)
EXTENDS Integers, Sequences, FiniteSets, Bags, TLC

(***************************************************************************)
(* Bounds of the model.                                                    *)
(***************************************************************************)
\* longest text typed into an amount field
MaxLen == 3
\* largest decimal count of a mint
MaxDecimals == 6
\* most decimal digits of a parsed amount (TLC integers are 32 bits wide,
\* the BN / BigInt of the code are not)
MaxDigits == 8
\* calls of getOrCreateAtaIx, and of ensurePositionIx, in one behaviour
MaxCalls == 2
\* longest instruction list handed to sendInstructions
MaxIx == 4
\* most log lines of a failed transaction
MaxLogs == 2
\* longest market identifier handed to a derivation helper, in bytes
MaxSeedLen == 34

(***************************************************************************)
(* Characters and texts.                                                   *)
(***************************************************************************)
Digits == {"0", "1", "2", "3", "4", "5", "6", "7", "8", "9"}

Whitespace == {" "}

\* the characters texts are drawn from: three digits, the decimal point,
\* a sign, an exponent marker, a blank and three letters
Alphabet == {"0", "1", "5", ".", "-", "e", " ", "a", "b", "c"}

Texts == UNION {[1..n -> Alphabet] : n \in 0..MaxLen}

DigitValue(c) ==
    CASE c = "0" -> 0 [] c = "1" -> 1 [] c = "2" -> 2 [] c = "3" -> 3
      [] c = "4" -> 4 [] c = "5" -> 5 [] c = "6" -> 6 [] c = "7" -> 7
      [] c = "8" -> 8 [] c = "9" -> 9

DigitChar(n) ==
    CASE n = 0 -> "0" [] n = 1 -> "1" [] n = 2 -> "2" [] n = 3 -> "3"
      [] n = 4 -> "4" [] n = 5 -> "5" [] n = 6 -> "6" [] n = 7 -> "7"
      [] n = 8 -> "8" [] n = 9 -> "9"

\* String.prototype.trim: strip whitespace from both ends
RECURSIVE TrimStart(_)
TrimStart(s) ==
    IF s # <<>> /\ Head(s) \in Whitespace THEN TrimStart(Tail(s)) ELSE s

RECURSIVE TrimEnd(_)
TrimEnd(s) ==
    IF s # <<>> /\ s[Len(s)] \in Whitespace
    THEN TrimEnd(SubSeq(s, 1, Len(s) - 1))
    ELSE s

Trim(s) == TrimEnd(TrimStart(s))

\* /^\d+(\.\d+)?$/ as the automaton the expression denotes
DecimalStep(q, c) ==
    CASE q = "start" -> IF c \in Digits THEN "whole" ELSE "fail"
      [] q = "whole" -> IF c \in Digits THEN "whole"
                        ELSE IF c = "." THEN "point" ELSE "fail"
      [] q = "point" -> IF c \in Digits THEN "fraction" ELSE "fail"
      [] q = "fraction" -> IF c \in Digits THEN "fraction" ELSE "fail"
      [] q = "fail" -> "fail"

RECURSIVE DecimalRun(_, _)
DecimalRun(q, s) ==
    IF s = <<>> THEN q ELSE DecimalRun(DecimalStep(q, Head(s)), Tail(s))

DecimalPattern(s) == DecimalRun("start", s) \in {"whole", "fraction"}

\* /^\d+$/
IntegerStep(q, c) ==
    CASE q = "start" -> IF c \in Digits THEN "whole" ELSE "fail"
      [] q = "whole" -> IF c \in Digits THEN "whole" ELSE "fail"
      [] q = "fail" -> "fail"

RECURSIVE IntegerRun(_, _)
IntegerRun(q, s) ==
    IF s = <<>> THEN q ELSE IntegerRun(IntegerStep(q, Head(s)), Tail(s))

IntegerPattern(s) == IntegerRun("start", s) = "whole"

\* String.prototype.split('.'): the pieces between the points
RECURSIVE SplitPoint(_, _)
SplitPoint(s, piece) ==
    IF s = <<>> THEN <<piece>>
    ELSE IF Head(s) = "." THEN <<piece>> \o SplitPoint(Tail(s), <<>>)
    ELSE SplitPoint(Tail(s), Append(piece, Head(s)))

\* String.prototype.padEnd(n, '0')
RECURSIVE PadEnd(_, _)
PadEnd(s, n) == IF Len(s) >= n THEN s ELSE PadEnd(Append(s, "0"), n)

\* the fraction is padded but never cut
Slice_none(s, n) == s

\* String.prototype.slice(0, n), n >= 0
Slice(s, n) == SubSeq(s, 1, IF n < Len(s) THEN n ELSE Len(s))

\* 10n * BigInt(n) written for 10n ** BigInt(n)
Pow10_times(n) == 10 * n

RECURSIVE Pow10(_)
Pow10(n) == IF n = 0 THEN 1 ELSE 10 * Pow10(n - 1)

\* BigInt(text) and new BN(text) of a text of decimal digits
RECURSIVE DigitsToNat(_)
DigitsToNat(s) ==
    IF s = <<>> THEN 0
    ELSE 10 * DigitsToNat(SubSeq(s, 1, Len(s) - 1)) + DigitValue(s[Len(s)])

\* BigInt.prototype.toString()
RECURSIVE NatToDigits(_)
NatToDigits(n) ==
    IF n < 10 THEN <<DigitChar(n)>>
    ELSE Append(NatToDigits(n \div 10), DigitChar(n % 10))

(***************************************************************************)
(* Outcome of a call: a returned value or a thrown error.                  *)
(***************************************************************************)
Return(v) == [ok |-> TRUE, value |-> v]

Throw(msg) == [ok |-> FALSE, error |-> msg]

(***************************************************************************)
(* Amount parsing.                                                         *)
(***************************************************************************)
\* a malformed text is clamped to zero instead of refused
parseTokenAmount_clamps(amount, decimals) ==
    LET normalized == Trim(amount)
        pieces == SplitPoint(normalized, <<>>)
        whole == pieces[1]
        fraction == IF Len(pieces) >= 2 THEN pieces[2] ELSE <<>>
        paddedFraction == Slice(PadEnd(fraction, decimals), decimals)
        raw == DigitsToNat(IF whole = <<>> THEN <<"0">> ELSE whole)
                   * Pow10(decimals)
               + DigitsToNat(IF paddedFraction = <<>> THEN <<"0">>
                             ELSE paddedFraction)
    IN  IF normalized = <<>> \/ ~DecimalPattern(normalized) THEN Return(0)
        ELSE Return(DigitsToNat(NatToDigits(raw)))

parseTokenAmount(amount, decimals) ==
    LET normalized == Trim(amount)
        pieces == SplitPoint(normalized, <<>>)
        whole == pieces[1]
        fraction == IF Len(pieces) >= 2 THEN pieces[2] ELSE <<>>
        paddedFraction == Slice(PadEnd(fraction, decimals), decimals)
        base == Pow10(decimals)
        raw == DigitsToNat(IF whole = <<>> THEN <<"0">> ELSE whole) * base
               + DigitsToNat(IF paddedFraction = <<>> THEN <<"0">>
                             ELSE paddedFraction)
    IN  IF normalized = <<>> THEN Return(0)
        ELSE IF ~DecimalPattern(normalized) THEN Throw("Invalid amount format")
        ELSE Return(DigitsToNat(NatToDigits(raw)))

\* the text is validated without being trimmed
parseIntegerAmount_notrim(amount) ==
    IF ~IntegerPattern(amount) THEN Throw("Invalid integer amount")
    ELSE Return(DigitsToNat(amount))

parseIntegerAmount(amount) ==
    LET normalized == Trim(amount)
    IN  IF ~IntegerPattern(normalized) THEN Throw("Invalid integer amount")
        ELSE Return(DigitsToNat(normalized))

(***************************************************************************)
(* Keys, programs, derived addresses and instructions.                     *)
(***************************************************************************)
Key(name) == <<"key", name>>

TOKEN_PROGRAM_ID == "TokenkegQfeZyiNwAJbNbGKPFXCWuBvf9Ss623VQ5DA"

TOKEN_2022_PROGRAM_ID == "TokenzQdBNbLqP5VEhdkAS6EPFLC1PHnBqCXEpPxuEb"

\* the wallet of the user, and another user of the protocol
Wallet == Key("wallet")

Owners == {Wallet, Key("other")}

Mints == {Key("loanMint"), Key("collateralMint")}

\* getAccountInfo of an address holding no account
NoAccount == "null"

\* an absent (undefined) instruction
NoIx == <<>>

\* getAssociatedTokenAddressSync(mint, owner, false, tokenProgramId,
\* ASSOCIATED_TOKEN_PROGRAM_ID): an address fixed by its three seeds
getAssociatedTokenAddressSync(mint, owner, tokenProgramId) ==
    <<"ata", mint, owner, tokenProgramId>>

createAssociatedTokenAccountInstruction(payer, ata, owner, mint, tokenProgramId) ==
    <<"createAssociatedTokenAccount", payer, ata, owner, mint, tokenProgramId>>

IsCreateAta(ix) == ix # NoIx /\ ix[1] = "createAssociatedTokenAccount"

TokenPrograms == {TOKEN_PROGRAM_ID, TOKEN_2022_PROGRAM_ID}

AtaAddresses ==
    {getAssociatedTokenAddressSync(m, o, p) :
        m \in Mints, o \in Owners, p \in TokenPrograms}

MORPHO_PROGRAM_ID == "9qYe29CskmZ1mcuLLFcQXovfbqXBqLsXpg4y7Rfk9NsE"

SYSTEM_PROGRAM_ID == "11111111111111111111111111111111"

PROGRAM_SEED_PREFIX == "morpho_v1"

PROTOCOL_STATE_SEED == "morpho_protocol"

POSITION_SEED == "morpho_position"

LOAN_VAULT_SEED == "morpho_loan_vault"

COLLATERAL_VAULT_SEED == "morpho_collateral_vault"

AUTHORIZATION_SEED == "morpho_authorization"

\* market identifiers: three bytes standing for the 32 bytes of a hash
MarketIds == {<<0, 0, 1>>, <<0, 1, 0>>}

MARKET_SEED == "morpho_market"

\* the longest seed PublicKey.createProgramAddressSync accepts, in bytes
MAX_SEED_LENGTH == 32

\* the entity seeds of a derivation: those after the constant prefix and the
\* category seed, which are 9 to 23 bytes long
EntitySeeds(seeds) == SubSeq(seeds, 3, Len(seeds))

\* PublicKey.findProgramAddressSync(seeds, programId): a TypeError for a
\* seed longer than MAX_SEED_LENGTH; otherwise an address fixed by the
\* program and the seeds, and the bump that goes with it
findProgramAddressSync(seeds, programId) ==
    IF \E i \in 1..Len(EntitySeeds(seeds)) :
           Len(EntitySeeds(seeds)[i]) > MAX_SEED_LENGTH
    THEN Throw("Max seed length exceeded")
    ELSE Return(<<(<<"pda", programId, seeds>>), CHOOSE bump \in 0..255 : TRUE>>)

getProtocolStatePDA ==
    findProgramAddressSync(
        <<PROGRAM_SEED_PREFIX, PROTOCOL_STATE_SEED>>, MORPHO_PROGRAM_ID)

\* the market identifier is cut to the longest seed allowed
getMarketPDA_truncates(marketId) ==
    findProgramAddressSync(
        <<PROGRAM_SEED_PREFIX, MARKET_SEED,
          SubSeq(marketId, 1, IF Len(marketId) > MAX_SEED_LENGTH
                              THEN MAX_SEED_LENGTH ELSE Len(marketId))>>,
        MORPHO_PROGRAM_ID)

getMarketPDA(marketId) ==
    findProgramAddressSync(
        <<PROGRAM_SEED_PREFIX, MARKET_SEED, marketId>>, MORPHO_PROGRAM_ID)

\* the owner and the market identifier change places among the seeds
getPositionPDA_swapped(marketId, owner) ==
    findProgramAddressSync(
        <<PROGRAM_SEED_PREFIX, POSITION_SEED, owner, marketId>>,
        MORPHO_PROGRAM_ID)

getPositionPDA(marketId, owner) ==
    findProgramAddressSync(
        <<PROGRAM_SEED_PREFIX, POSITION_SEED, marketId, owner>>,
        MORPHO_PROGRAM_ID)

\* the loan vault is derived under the category seed of the market
getLoanVaultPDA_marketSeed(marketId) ==
    findProgramAddressSync(
        <<PROGRAM_SEED_PREFIX, MARKET_SEED, marketId>>, MORPHO_PROGRAM_ID)

getLoanVaultPDA(marketId) ==
    findProgramAddressSync(
        <<PROGRAM_SEED_PREFIX, LOAN_VAULT_SEED, marketId>>, MORPHO_PROGRAM_ID)

getCollateralVaultPDA(marketId) ==
    findProgramAddressSync(
        <<PROGRAM_SEED_PREFIX, COLLATERAL_VAULT_SEED, marketId>>,
        MORPHO_PROGRAM_ID)

getAuthorizationPDA(authorizer, authorized) ==
    findProgramAddressSync(
        <<PROGRAM_SEED_PREFIX, AUTHORIZATION_SEED, authorizer, authorized>>,
        MORPHO_PROGRAM_ID)

\* program.methods.createPosition(Array.from(marketId)).accounts({payer,
\* owner, market, position, systemProgram}).instruction()
createPositionInstruction(marketId, payer, owner, market, position) ==
    <<"createPosition", [i \in 1..Len(marketId) |-> marketId[i]], payer,
      owner, market, position, SYSTEM_PROGRAM_ID>>

IsCreatePosition(ix) == ix # NoIx /\ ix[1] = "createPosition"

\* the position address the on-chain program derives for (market id, owner)
ProgramPosition(marketIdArray, owner) ==
    <<"pda", MORPHO_PROGRAM_ID,
      <<PROGRAM_SEED_PREFIX, POSITION_SEED, marketIdArray, owner>> >>

PositionAddresses ==
    {ProgramPosition(m, o) : m \in MarketIds, o \in Owners}

Addresses == Mints \cup AtaAddresses \cup PositionAddresses

(***************************************************************************)
(* State.                                                                  *)
(***************************************************************************)
VARIABLES
    amount,       \* text of the amount field handed to a parser
    decimals,     \* decimal count of the mint the amount is of
    parsed,       \* which parser was applied and its outcome
    accounts,     \* the chain: address -> owning program of the account, or NoAccount
    ataCall,      \* the call of getOrCreateAtaIx in progress
    posCall,      \* the call of ensurePositionIx in progress
    returned,     \* creation instructions returned by finished calls
    executed,     \* creation instructions executed on chain
    calls,        \* calls made so far
    sendCall,     \* the call of sendInstructions in progress
    wire,         \* what sendInstructions asked of the wallet and the network
    derived,      \* the call of an address derivation helper and its outcome
    hashed,       \* the call of calculateMarketId and its outcome
    summarized,   \* the call of formatTxLogSummary and its outcome
    ui,           \* the user action in progress: its handler, flag and toast
    page          \* the page around the actions: wallet, queries, markers

vars ==
    <<amount, decimals, parsed, accounts, ataCall, posCall, returned,
      executed, calls, sendCall, wire, derived, hashed, summarized, ui,
      page>>

parseVars == <<amount, decimals, parsed>>

chainVars == <<accounts, returned, executed, calls>>

sendVars == <<sendCall, wire>>

pureVars == <<derived, hashed, summarized>>

uiVars == <<ui>>

\* digits in front of the first point: with the decimal count, the size of
\* the parsed amount
WholeLen(s) == Len(SplitPoint(s, <<>>)[1])

Fits(s, d) == WholeLen(s) + d <= MaxDigits

NotParsed == [by |-> "none"]

NoCall == [pc |-> "idle"]

\* no parser is called
ParseIdle == amount = <<>> /\ decimals = 0 /\ parsed = NotParsed

\* no account is resolved: an empty chain and no call
ChainIdle ==
    /\ accounts = [a \in Addresses |-> NoAccount]
    /\ ataCall = NoCall
    /\ posCall = NoCall
    /\ returned = {}
    /\ executed = {}
    /\ calls = 0

\* nothing is being sent
SendIdle == sendCall = NoCall /\ wire = <<>>

\* no address is derived and no market identifier computed
PureIdle == derived = NoCall /\ hashed = NoCall /\ summarized = NoCall

\* no user action is under way
UiIdle == ui = NoCall

\* no page is shown
PageIdle == page = NoCall

InitParse ==
    /\ amount \in Texts
    /\ decimals \in 0..MaxDecimals
    /\ Fits(amount, decimals)
    /\ parsed = NotParsed
    /\ ChainIdle
    /\ SendIdle
    /\ PureIdle
    /\ UiIdle
    /\ PageIdle

CallParseTokenAmount ==
    /\ parsed = NotParsed
    /\ parsed' = [by |-> "parseTokenAmount",
                  outcome |-> parseTokenAmount(amount, decimals)]
    /\ UNCHANGED <<amount, decimals, pureVars, uiVars, ataCall, posCall, chainVars, sendVars, page>>

CallParseIntegerAmount ==
    /\ parsed = NotParsed
    /\ parsed' = [by |-> "parseIntegerAmount",
                  outcome |-> parseIntegerAmount(amount)]
    /\ UNCHANGED <<amount, decimals, pureVars, uiVars, ataCall, posCall, chainVars, sendVars, page>>

NextParse ==
    \/ CallParseTokenAmount
    \/ CallParseIntegerAmount

SpecParse == InitParse /\ [][NextParse]_vars

(***************************************************************************)
(* Token account resolution.                                               *)
(***************************************************************************)
\* connection.getAccountInfo(address): null where no account is held
getAccountInfo(address) ==
    IF address \in DOMAIN accounts THEN accounts[address] ELSE NoAccount

\* whether the chain holds an account at an address
HoldsAccount(address) ==
    address \in DOMAIN accounts /\ accounts[address] # NoAccount

\* the token program governing a mint that exists
RefTokenProgram(mint) ==
    IF accounts[mint] = TOKEN_2022_PROGRAM_ID THEN TOKEN_2022_PROGRAM_ID
    ELSE TOKEN_PROGRAM_ID

\* a missing mint is taken for a classic-token mint
getTokenProgramId_unchecked(info) ==
    IF info = TOKEN_2022_PROGRAM_ID THEN Return(TOKEN_2022_PROGRAM_ID)
    ELSE Return(TOKEN_PROGRAM_ID)

\* getTokenProgramId once the mint's account info has arrived
getTokenProgramId(info) ==
    IF info = NoAccount THEN Throw("Mint account not found")
    ELSE IF info = TOKEN_2022_PROGRAM_ID THEN Return(TOKEN_2022_PROGRAM_ID)
    ELSE Return(TOKEN_PROGRAM_ID)

\* the token account is never found to exist
AccountFound_never(info) == FALSE

\* the test `if (ataInfo)` / `if (info)`
AccountFound(info) == info # NoAccount

\* payer and owner change places in the creation instruction
AtaResult_swapped(payer, owner, mint, tokenProgramId, ata, ataInfo) ==
    IF AccountFound(ataInfo)
    THEN [address |-> ata, tokenProgramId |-> tokenProgramId,
          instruction |-> NoIx]
    ELSE [address |-> ata, tokenProgramId |-> tokenProgramId,
          instruction |-> createAssociatedTokenAccountInstruction(
                              owner, ata, payer, mint, tokenProgramId)]

\* what getOrCreateAtaIx returns once the account info of the ata has arrived
AtaResult(payer, owner, mint, tokenProgramId, ata, ataInfo) ==
    IF AccountFound(ataInfo)
    THEN [address |-> ata, tokenProgramId |-> tokenProgramId,
          instruction |-> NoIx]
    ELSE [address |-> ata, tokenProgramId |-> tokenProgramId,
          instruction |-> createAssociatedTokenAccountInstruction(
                              payer, ata, owner, mint, tokenProgramId)]

\* the chain holds any mints, of either token program, and no token account
InitAta ==
    /\ ParseIdle
    /\ \E mints \in [Mints -> TokenPrograms \cup {NoAccount}] :
           accounts = [a \in Addresses |->
                          IF a \in Mints THEN mints[a] ELSE NoAccount]
    /\ ataCall = NoCall
    /\ posCall = NoCall
    /\ returned = {}
    /\ executed = {}
    /\ calls = 0
    /\ SendIdle
    /\ PureIdle
    /\ UiIdle
    /\ PageIdle

\* getOrCreateAtaIx up to its first await: the query for the mint is sent
getOrCreateAtaIx(payer, owner, mint) ==
    ataCall' = [pc |-> "mint", payer |-> payer, owner |-> owner,
                mint |-> mint, reads |-> <<mint>>, answered |-> 0,
                before |-> executed]

\* getOrCreateAtaIx is called
AtaCallStart(payer, owner, mint) ==
    /\ ataCall.pc = "idle"
    /\ calls < MaxCalls
    /\ calls' = calls + 1
    /\ getOrCreateAtaIx(payer, owner, mint)
    /\ UNCHANGED <<parseVars, pureVars, uiVars, sendVars, posCall, accounts, returned, executed, page>>

\* the mint's account info arrives: getTokenProgramId throws or the address
\* is derived and the second query, for the ata, is sent
AtaMintInfo ==
    /\ ataCall.pc = "mint"
    /\ LET program == getTokenProgramId(getAccountInfo(ataCall.mint))
           ata == getAssociatedTokenAddressSync(
                      ataCall.mint, ataCall.owner, program.value)
       IN  ataCall' =
               IF program.ok
               THEN [pc |-> "ata", payer |-> ataCall.payer,
                     owner |-> ataCall.owner, mint |-> ataCall.mint,
                     reads |-> Append(ataCall.reads, ata),
                     answered |-> 1, before |-> ataCall.before,
                     tokenProgramId |-> program.value, ata |-> ata]
               ELSE [pc |-> "done", payer |-> ataCall.payer,
                     owner |-> ataCall.owner, mint |-> ataCall.mint,
                     reads |-> ataCall.reads, answered |-> 1,
                     before |-> ataCall.before, outcome |-> program]
    /\ UNCHANGED <<parseVars, pureVars, uiVars, sendVars, posCall, chainVars, page>>

\* the ata's account info arrives and getOrCreateAtaIx returns
AtaInfo ==
    /\ ataCall.pc = "ata"
    /\ ataCall' =
           [pc |-> "done", payer |-> ataCall.payer, owner |-> ataCall.owner,
            mint |-> ataCall.mint, reads |-> ataCall.reads,
            answered |-> 2, before |-> ataCall.before,
            held |-> HoldsAccount(<<"ata", ataCall.mint, ataCall.owner,
                                    RefTokenProgram(ataCall.mint)>>),
            outcome |-> Return(AtaResult(ataCall.payer, ataCall.owner,
                                         ataCall.mint, ataCall.tokenProgramId,
                                         ataCall.ata,
                                         getAccountInfo(ataCall.ata)))]
    /\ UNCHANGED <<parseVars, pureVars, uiVars, sendVars, posCall, chainVars, page>>

\* a query is rejected by the RPC node and the call rejects with its error
AtaQueryFails ==
    /\ ataCall.pc \in {"mint", "ata"}
    /\ ataCall' = [pc |-> "done", payer |-> ataCall.payer,
                   owner |-> ataCall.owner, mint |-> ataCall.mint,
                   reads |-> ataCall.reads, answered |-> ataCall.answered,
                   before |-> ataCall.before, outcome |-> Throw("rpc error")]
    /\ UNCHANGED <<parseVars, pureVars, uiVars, sendVars, posCall, chainVars, page>>

\* the caller takes the result; a returned creation instruction is kept for
\* the transaction it goes into
AtaCallEnd ==
    /\ ataCall.pc = "done"
    /\ returned' =
           IF ataCall.outcome.ok /\ ataCall.outcome.value.instruction # NoIx
           THEN returned \cup {ataCall.outcome.value.instruction}
           ELSE returned
    /\ ataCall' = NoCall
    /\ UNCHANGED <<parseVars, pureVars, uiVars, sendVars, posCall, accounts, executed, calls, page>>

\* the associated-token program creates the account: the address must be the
\* one derived from (owner, mint, token program), the mint must be of that
\* token program and the address must hold no account yet
CanCreateAta(ix) ==
    /\ ix[3] = getAssociatedTokenAddressSync(ix[5], ix[4], ix[6])
    /\ ix[3] \in DOMAIN accounts
    /\ accounts[ix[3]] = NoAccount
    /\ accounts[ix[5]] = ix[6]

\* a transaction carrying a returned creation instruction executes it
ChainExecutesCreateAta(ix) ==
    /\ ix \in returned
    /\ IsCreateAta(ix)
    /\ CanCreateAta(ix)
    /\ accounts' = [accounts EXCEPT ![ix[3]] = ix[6]]
    /\ executed' = executed \cup {ix}
    /\ UNCHANGED <<parseVars, pureVars, uiVars, sendVars, ataCall, posCall, returned, calls, page>>

\* somebody else creates the token account of (mint, owner)
ChainCreatesAta(owner, mint) ==
    /\ accounts[mint] # NoAccount
    /\ LET ata == getAssociatedTokenAddressSync(mint, owner, accounts[mint])
       IN  /\ accounts[ata] = NoAccount
           /\ accounts' = [accounts EXCEPT ![ata] = accounts[mint]]
    /\ UNCHANGED <<parseVars, pureVars, uiVars, sendVars, ataCall, posCall, returned, executed, calls, page>>

NextAta ==
    \/ \E owner \in Owners, mint \in Mints : AtaCallStart(Wallet, owner, mint)
    \/ AtaMintInfo
    \/ AtaInfo
    \/ AtaQueryFails
    \/ AtaCallEnd
    \/ \E ix \in returned : ChainExecutesCreateAta(ix)
    \/ \E owner \in Owners, mint \in Mints : ChainCreatesAta(owner, mint)

SpecAta == InitAta /\ [][NextAta]_vars

(***************************************************************************)
(* Position existence check.                                               *)
(***************************************************************************)
\* what ensurePositionIx returns once the account info of the position has
\* arrived: the address alone, or the address and a createPosition instruction
PositionResult(marketId, market, owner, payer, positionPda, info) ==
    IF AccountFound(info)
    THEN [positionPda |-> positionPda, instruction |-> NoIx]
    ELSE [positionPda |-> positionPda,
          instruction |-> createPositionInstruction(
                              marketId, payer, owner, market, positionPda)]

\* the chain holds the mints and no position
InitPosition ==
    /\ ParseIdle
    /\ accounts = [a \in Addresses |->
                      IF a \in Mints THEN TOKEN_PROGRAM_ID ELSE NoAccount]
    /\ ataCall = NoCall
    /\ posCall = NoCall
    /\ returned = {}
    /\ executed = {}
    /\ calls = 0
    /\ SendIdle
    /\ PureIdle
    /\ UiIdle
    /\ PageIdle

\* ensurePositionIx up to its first await: the address is derived (a failed
\* derivation rejects the call) and its account info is asked for
ensurePositionIx(marketId, market, owner, payer) ==
    LET position == getPositionPDA(marketId, owner)
    IN  posCall' =
            IF position.ok
            THEN [pc |-> "info", marketId |-> marketId, market |-> market,
                  owner |-> owner, payer |-> payer,
                  positionPda |-> position.value[1],
                  reads |-> <<position.value[1]>>]
            ELSE [pc |-> "done", marketId |-> marketId, market |-> market,
                  owner |-> owner, payer |-> payer, reads |-> <<>>,
                  outcome |-> position]

\* ensurePositionIx is called
PosCallStart(marketId, owner, payer) ==
    /\ posCall.pc = "idle"
    /\ calls < MaxCalls
    /\ calls' = calls + 1
    /\ ensurePositionIx(marketId, getMarketPDA(marketId).value[1], owner, payer)
    /\ UNCHANGED <<parseVars, pureVars, uiVars, sendVars, ataCall, accounts, returned, executed, page>>

\* the account info arrives and ensurePositionIx returns
PosInfo ==
    /\ posCall.pc = "info"
    /\ posCall' =
           [pc |-> "done", marketId |-> posCall.marketId,
            market |-> posCall.market, owner |-> posCall.owner,
            payer |-> posCall.payer, reads |-> posCall.reads,
            held |-> HoldsAccount(
                         <<"pda", MORPHO_PROGRAM_ID,
                           <<PROGRAM_SEED_PREFIX, POSITION_SEED,
                             posCall.marketId, posCall.owner>> >>),
            outcome |-> Return(PositionResult(
                                   posCall.marketId, posCall.market,
                                   posCall.owner, posCall.payer,
                                   posCall.positionPda,
                                   getAccountInfo(posCall.positionPda)))]
    /\ UNCHANGED <<parseVars, pureVars, uiVars, sendVars, ataCall, chainVars, page>>

\* the query is rejected by the RPC node and the call rejects with its error
PosQueryFails ==
    /\ posCall.pc = "info"
    /\ posCall' = [pc |-> "done", marketId |-> posCall.marketId,
                   market |-> posCall.market, owner |-> posCall.owner,
                   payer |-> posCall.payer, reads |-> posCall.reads,
                   outcome |-> Throw("rpc error")]
    /\ UNCHANGED <<parseVars, pureVars, uiVars, sendVars, ataCall, chainVars, page>>

\* the caller takes the result; a returned creation instruction is kept for
\* the transaction it goes into
PosCallEnd ==
    /\ posCall.pc = "done"
    /\ returned' =
           IF posCall.outcome.ok /\ posCall.outcome.value.instruction # NoIx
           THEN returned \cup {posCall.outcome.value.instruction}
           ELSE returned
    /\ posCall' = NoCall
    /\ UNCHANGED <<parseVars, pureVars, uiVars, sendVars, ataCall, accounts, executed, calls, page>>

\* a transaction carrying a returned createPosition instruction executes it:
\* the position account must be the derived one and must not exist yet
ChainExecutesCreatePosition(ix) ==
    /\ ix \in returned
    /\ IsCreatePosition(ix)
    /\ ix[6] = ProgramPosition(ix[2], ix[4])
    /\ ix[6] \in DOMAIN accounts
    /\ accounts[ix[6]] = NoAccount
    /\ accounts' = [accounts EXCEPT ![ix[6]] = MORPHO_PROGRAM_ID]
    /\ executed' = executed \cup {ix}
    /\ UNCHANGED <<parseVars, pureVars, uiVars, sendVars, ataCall, posCall, returned, calls, page>>

\* the position of (market id, owner) is created by another transaction
ChainCreatesPosition(marketId, owner) ==
    /\ accounts[ProgramPosition(marketId, owner)] = NoAccount
    /\ accounts' = [accounts EXCEPT
                       ![ProgramPosition(marketId, owner)] = MORPHO_PROGRAM_ID]
    /\ UNCHANGED <<parseVars, pureVars, uiVars, sendVars, ataCall, posCall, returned, executed, calls, page>>

\* the position of (market id, owner) is closed (closePosition)
ChainClosesPosition(marketId, owner) ==
    /\ accounts[ProgramPosition(marketId, owner)] # NoAccount
    /\ accounts' = [accounts EXCEPT
                       ![ProgramPosition(marketId, owner)] = NoAccount]
    /\ UNCHANGED <<parseVars, pureVars, uiVars, sendVars, ataCall, posCall, returned, executed, calls, page>>

NextPosition ==
    \/ \E marketId \in MarketIds, owner \in Owners :
           PosCallStart(marketId, owner, Wallet)
    \/ PosInfo
    \/ PosQueryFails
    \/ PosCallEnd
    \/ \E ix \in returned : ChainExecutesCreatePosition(ix)
    \/ \E marketId \in MarketIds, owner \in Owners :
           ChainCreatesPosition(marketId, owner)
    \/ \E marketId \in MarketIds, owner \in Owners :
           ChainClosesPosition(marketId, owner)

SpecPosition == InitPosition /\ [][NextPosition]_vars

(***************************************************************************)
(* Transaction assembly and submission.                                    *)
(*                                                                         *)
(* Log lines and error messages are sequences of tokens; a blank is the    *)
(* token " ".  includes() is the search for a run of tokens.               *)
(***************************************************************************)
\* instructions handed to sendInstructions
SampleIxs == {<<"ixA">>, <<"ixB">>}

IxLists == UNION {[1..n -> SampleIxs \cup {NoIx}] : n \in 0..MaxIx}

InstructionLine == <<"Program log:", " ", "Instruction:", " ", "Supply">>

AnchorLine ==
    <<"Program log:", " ", "AnchorError", " ", "occurred.", " ",
      "Error Code", ":", " ", "MarketPaused">>

ErrorCodeLine == <<"Program log:", " ", "Error Code", ":", " ", "6001">>

CustomErrorLine ==
    <<"Program", " ", "failed:", " ", "custom program error", ":", " ", "0x1">>

InvokeLine == <<"Program", " ", "invoke">>

LogLines ==
    {InstructionLine, AnchorLine, ErrorCodeLine, CustomErrorLine, InvokeLine}

\* an absent line or summary (undefined, null)
NoLine == <<"undefined">>

\* absent logs (undefined, null)
NoLogs == <<NoLine>>

LogLists == UNION {[1..n -> LogLines] : n \in 0..MaxLogs}

\* String.prototype.includes
Includes(text, needle) ==
    \E i \in 0..(Len(text) - Len(needle)) :
        SubSeq(text, i + 1, i + Len(needle)) = needle

\* the last line the test holds of is taken
RECURSIVE Find_last(_, _)
Find_last(lines, needle) ==
    IF lines = <<>> THEN NoLine
    ELSE IF Includes(lines[Len(lines)], needle) THEN lines[Len(lines)]
    ELSE Find_last(SubSeq(lines, 1, Len(lines) - 1), needle)

\* Array.prototype.find: the first line the test holds of, or undefined
RECURSIVE Find(_, _)
Find(lines, needle) ==
    IF lines = <<>> THEN NoLine
    ELSE IF Includes(Head(lines), needle) THEN Head(lines)
    ELSE Find(Tail(lines), needle)

\* line.replace(/^Program log:\s*/, '').trim()
StripLogPrefix(line) ==
    Trim(IF line # <<>> /\ Head(line) = "Program log:"
         THEN TrimStart(Tail(line))
         ELSE line)

\* Array.prototype.join(' | ')
RECURSIVE Join(_)
Join(parts) ==
    IF Len(parts) = 1 THEN parts[1]
    ELSE parts[1] \o <<" | ">> \o Join(Tail(parts))

\* null, or the instruction line and the first error line joined
formatTxLogSummary(logs) ==
    IF logs = NoLogs \/ Len(logs) = 0 THEN NoLine
    ELSE LET instructionLine ==
                 Find(logs, <<"Program log:", " ", "Instruction:">>)
             anchorLine ==
                 IF Find(logs, <<"AnchorError">>) # NoLine
                 THEN Find(logs, <<"AnchorError">>)
                 ELSE IF Find(logs, <<"Error Code">>) # NoLine
                 THEN Find(logs, <<"Error Code">>)
                 ELSE Find(logs, <<"custom program error">>)
             kept == SelectSeq(<<instructionLine, anchorLine>>,
                               LAMBDA line : line # NoLine)
             parts == [i \in 1..Len(kept) |-> StripLogPrefix(kept[i])]
         IN  IF Len(parts) = 0 THEN NoLine ELSE Join(parts)

\* what a failed sendAndConfirm throws: a SendTransactionError, whose logs
\* are fetched (logs: those the transaction left on chain, if any), an Error
\* or another object that may carry logs
SendErrors ==
    {[class |-> "SendTransactionError", isError |-> TRUE, hasLogs |-> FALSE,
      logs |-> l, message |-> <<"Simulation failed">>]
        : l \in LogLists \cup {NoLogs}}
    \cup
    {[class |-> "SendTransactionError", isError |-> TRUE, hasLogs |-> TRUE,
      logs |-> l, message |-> <<"Simulation failed">>] : l \in LogLists}
    \cup
    {[class |-> c, isError |-> c = "Error", hasLogs |-> TRUE, logs |-> l,
      message |-> <<"failed">>] : c \in {"Error", "object"}, l \in LogLists}
    \cup
    {[class |-> "Error", isError |-> TRUE, hasLogs |-> FALSE, logs |-> NoLogs,
      message |-> <<"User rejected the request">>]}

\* new Error(message)
NewError(message) ==
    [class |-> "Error", isError |-> TRUE, hasLogs |-> FALSE, logs |-> NoLogs,
     message |-> <<message>>]

Rejects(error) == [ok |-> FALSE, error |-> error]

\* tx.add puts the instruction in front
TxAdd_front(tx, ix) == <<ix>> \o tx

\* Transaction.add
TxAdd(tx, ix) == Append(tx, ix)

\* instructions.filter(Boolean).forEach((ix) => tx.add(ix))
RECURSIVE AddAll(_, _)
AddAll(tx, list) ==
    IF list = <<>> THEN tx ELSE AddAll(TxAdd(tx, Head(list)), Tail(list))

FilterBoolean(list) == SelectSeq(list, LAMBDA ix : ix # NoIx)

\* the empty transaction is not refused
NothingToSend_never(tx) == FALSE

\* tx.instructions.length === 0
NothingToSend(tx) == Len(tx) = 0

\* the catch block once the logs are known: summarize, annotate, rethrow
Rethrown(error, logs) ==
    LET summary == formatTxLogSummary(logs)
    IN  IF summary # NoLine /\ error.isError
           /\ ~Includes(error.message, summary)
        THEN [error EXCEPT !.message = error.message \o <<" | ">> \o summary]
        ELSE error

InitSend ==
    /\ ParseIdle
    /\ ChainIdle
    /\ SendIdle
    /\ PureIdle
    /\ UiIdle
    /\ PageIdle

\* sendInstructions up to its first await: the transaction is assembled and,
\* unless it is empty, handed to provider.sendAndConfirm with the wallet as
\* fee payer
sendInstructions(instructions) ==
    LET tx == AddAll(<<>>, FilterBoolean(instructions))
    IN  IF NothingToSend(tx)
        THEN /\ sendCall' = [pc |-> "done", instructions |-> instructions,
                             outcome |-> Rejects(NewError(
                                             "No instructions to send"))]
             /\ wire' = wire
        ELSE /\ sendCall' = [pc |-> "sending", instructions |-> instructions]
             /\ wire' = Append(wire, [call |-> "sendAndConfirm",
                                      instructions |-> tx,
                                      feePayer |-> Wallet])

\* sendInstructions is called
SendCallStart(instructions) ==
    /\ sendCall.pc = "idle"
    /\ wire = <<>>
    /\ sendInstructions(instructions)
    /\ UNCHANGED <<parseVars, pureVars, uiVars, ataCall, posCall, chainVars, page>>

IsCreation(ix) == IsCreateAta(ix) \/ IsCreatePosition(ix)

\* the account a creation instruction creates
Created(ix) == IF IsCreateAta(ix) THEN ix[3] ELSE ix[6]

\* the program owning the account a creation instruction creates
CreatedOwner(ix) == IF IsCreateAta(ix) THEN ix[6] ELSE MORPHO_PROGRAM_ID

\* the chain once the creation instructions of a transaction have run
Execute(tx) ==
    [a \in DOMAIN accounts |->
        IF \E i \in 1..Len(tx) : IsCreation(tx[i]) /\ Created(tx[i]) = a
        THEN CreatedOwner(tx[CHOOSE i \in 1..Len(tx) :
                                 IsCreation(tx[i]) /\ Created(tx[i]) = a])
        ELSE accounts[a]]

\* the transaction is signed, sent and confirmed: its creation instructions
\* have run, each on an address holding no account
SendConfirmed ==
    /\ sendCall.pc = "sending"
    /\ LET tx == wire[Len(wire)].instructions
       IN  /\ \A i \in 1..Len(tx) :
                  IsCreation(tx[i]) =>
                      /\ Created(tx[i]) \in DOMAIN accounts
                      /\ accounts[Created(tx[i])] = NoAccount
           /\ accounts' = Execute(tx)
           /\ executed' =
                  executed \cup {tx[i] : i \in {j \in 1..Len(tx) :
                                                   IsCreation(tx[j])}}
    /\ sendCall' = [pc |-> "done", instructions |-> sendCall.instructions,
                    outcome |-> Return("signature")]
    /\ UNCHANGED <<parseVars, pureVars, uiVars, ataCall, posCall, returned, calls, wire, page>>

\* a failed transaction is handed to sendAndConfirm a second time
SendFails_retries(error) ==
    /\ sendCall.pc = "sending"
    /\ IF Len(wire) < 2
       THEN /\ sendCall' = sendCall
            /\ wire' = Append(wire, wire[1])
       ELSE /\ sendCall' =
                   [pc |-> "done", instructions |-> sendCall.instructions,
                    thrown |-> error, outcome |-> Rejects(error)]
            /\ wire' = wire
    /\ UNCHANGED <<parseVars, pureVars, uiVars, ataCall, posCall, chainVars, page>>

\* sendAndConfirm fails: the logs of a SendTransactionError are awaited
\* (getLogs asks the RPC node for the transaction unless the error holds
\* them already), any other error is summarized from the logs it carries
\* and rethrown
SendFails(error) ==
    /\ sendCall.pc = "sending"
    /\ IF error.class = "SendTransactionError"
       THEN /\ sendCall' = [pc |-> "logs",
                            instructions |-> sendCall.instructions,
                            error |-> error]
            /\ wire' = IF error.hasLogs THEN wire
                       ELSE Append(wire, [call |-> "getTransaction"])
       ELSE /\ sendCall' =
                   [pc |-> "done", instructions |-> sendCall.instructions,
                    thrown |-> error,
                    outcome |-> Rejects(Rethrown(
                                    error,
                                    IF error.hasLogs THEN error.logs
                                    ELSE NoLogs))]
            /\ wire' = wire
    /\ UNCHANGED <<parseVars, pureVars, uiVars, ataCall, posCall, chainVars, page>>

\* error.getLogs(connection) answers with the logs of the transaction
SendLogsArrive(logs) ==
    /\ sendCall.pc = "logs"
    /\ logs = sendCall.error.logs
    /\ sendCall' = [pc |-> "done", instructions |-> sendCall.instructions,
                    thrown |-> sendCall.error,
                    outcome |-> Rejects(Rethrown(sendCall.error, logs))]
    /\ UNCHANGED <<parseVars, pureVars, uiVars, ataCall, posCall, chainVars, wire, page>>

\* error.getLogs(connection) rejects, for want of logs or of an answer of
\* the RPC node, and its error leaves the catch block
SendLogsFail ==
    /\ sendCall.pc = "logs"
    /\ ~sendCall.error.hasLogs
    /\ sendCall' = [pc |-> "done", instructions |-> sendCall.instructions,
                    thrown |-> sendCall.error,
                    outcome |-> Rejects(NewError(
                                    IF sendCall.error.logs = NoLogs
                                    THEN "Log messages not found"
                                    ELSE "failed to get transaction"))]
    /\ UNCHANGED <<parseVars, pureVars, uiVars, ataCall, posCall, chainVars, wire, page>>

NextSend ==
    \/ \E instructions \in IxLists : SendCallStart(instructions)
    \/ SendConfirmed
    \/ \E error \in SendErrors : SendFails(error)
    \/ \E logs \in LogLists : SendLogsArrive(logs)
    \/ SendLogsFail

SpecSend == InitSend /\ [][NextSend]_vars

(***************************************************************************)
(* Reference definitions for the parsers, stated on the text as a whole    *)
(* (positions and sums) rather than by the steps of the code.              *)
(***************************************************************************)
\* the text between its first and its last non-blank character
RefTrim(s) ==
    LET solid == {i \in 1..Len(s) : s[i] \notin Whitespace}
    IN  IF solid = {} THEN <<>>
        ELSE SubSeq(s, CHOOSE i \in solid : \A j \in solid : i <= j,
                       CHOOSE i \in solid : \A j \in solid : i >= j)

AllDigits(s, from, to) == \A i \in from..to : s[i] \in Digits

\* digits, then optionally a point and digits: k is the length of the whole part
RefIsDecimal(t) ==
    \E k \in 1..Len(t) :
        /\ AllDigits(t, 1, k)
        /\ \/ k = Len(t)
           \/ /\ k + 2 <= Len(t)
              /\ t[k + 1] = "."
              /\ AllDigits(t, k + 2, Len(t))

RefIsInteger(t) == Len(t) >= 1 /\ AllDigits(t, 1, Len(t))

\* the number a text of digits denotes, as a positional sum
RECURSIVE RefNumber(_)
RefNumber(s) ==
    IF s = <<>> THEN 0
    ELSE DigitValue(Head(s)) * Pow10(Len(s) - 1) + RefNumber(Tail(s))

RefWholeLen(t) ==
    IF \E i \in 1..Len(t) : t[i] = "."
    THEN (CHOOSE i \in 1..Len(t) : t[i] = ".") - 1
    ELSE Len(t)

RefWhole(t) == SubSeq(t, 1, RefWholeLen(t))

RefFraction(t) == SubSeq(t, RefWholeLen(t) + 2, Len(t))

\* whole * 10^d + F, F the fraction right-padded with zeros to d digits or
\* cut to its first d digits
RefTokenAmount(s, d) ==
    LET t == RefTrim(s)
        f == RefFraction(t)
        F == IF Len(f) >= d THEN RefNumber(SubSeq(f, 1, d))
             ELSE RefNumber(f) * Pow10(d - Len(f))
    IN  IF t = <<>> THEN Return(0)
        ELSE IF RefIsDecimal(t)
        THEN Return(RefNumber(RefWhole(t)) * Pow10(d) + F)
        ELSE Throw("Invalid amount format")

ByToken == parsed.by = "parseTokenAmount"

ByInteger == parsed.by = "parseIntegerAmount"

\* C7: parseTokenAmount(text, d) equals the reference function: trim; empty
\* gives 0; a text matching ^\d+(\.\d+)?$ gives whole * 10^d + F with the
\* fraction padded or cut (never rounded) to d digits; any other text fails.
C7_ParseTokenAmountIsReference ==
    ByToken => parsed.outcome = RefTokenAmount(amount, decimals)

\* a fraction longer than the decimal count whose first cut digit would
\* round up has been parsed
C7_Witness ==
    /\ ByToken
    /\ parsed.outcome.ok
    /\ RefIsDecimal(RefTrim(amount))
    /\ Len(RefFraction(RefTrim(amount))) > decimals
    /\ DigitValue(RefFraction(RefTrim(amount))[decimals + 1]) >= 5

NonNumericChar(c) == c \notin (Digits \cup {"."} \cup Whitespace)

FormatErrors == {"Invalid amount format", "Invalid integer amount"}

Rejected(outcome) ==
    /\ ~outcome.ok
    /\ outcome.error \in FormatErrors
    /\ "value" \notin DOMAIN outcome

\* C8: both parsers fail with an invalid-format error, and return no value,
\* for every text holding a sign, an exponent marker or a letter; in
\* particular parseTokenAmount("abc", d) and parseIntegerAmount("1.5") fail.
C8_BothParsersFailClosed ==
    /\ (parsed # NotParsed /\ \E i \in 1..Len(amount) : NonNumericChar(amount[i]))
           => Rejected(parsed.outcome)
    /\ (ByToken /\ amount = <<"a", "b", "c">>) => Rejected(parsed.outcome)
    /\ (ByInteger /\ amount = <<"1", ".", "5">>) => Rejected(parsed.outcome)

\* a negative number has been handed to parseTokenAmount and refused
C8_Witness ==
    /\ ByToken
    /\ amount = <<"-", "1">>
    /\ ~parsed.outcome.ok

\* the texts parseTokenAmount accepts as decimal numbers: they hold digits,
\* points and blanks only
NumericChars == Alphabet \cap (Digits \cup {"."} \cup Whitespace)

NumericTexts == UNION {[1..n -> NumericChars] : n \in 0..MaxLen}

\* (taken through a bag, which lists the members once and for all)
ValidTexts == BagToSet(SetToBag({t \in NumericTexts : RefIsDecimal(RefTrim(t))}))

RECURSIVE StripLeadingZeros(_)
StripLeadingZeros(s) ==
    IF s # <<>> /\ Head(s) = "0" THEN StripLeadingZeros(Tail(s)) ELSE s

RECURSIVE StripTrailingZeros(_)
StripTrailingZeros(s) ==
    IF s # <<>> /\ s[Len(s)] = "0"
    THEN StripTrailingZeros(SubSeq(s, 1, Len(s) - 1))
    ELSE s

\* the value a valid text denotes once cut to d fractional digits: its whole
\* part without leading zeros and its first d fractional digits without
\* trailing zeros
TruncatedValue(t, d) ==
    LET n == RefTrim(t)
        f == RefFraction(n)
    IN  <<StripLeadingZeros(RefWhole(n)),
          StripTrailingZeros(SubSeq(f, 1, IF d < Len(f) THEN d ELSE Len(f)))>>

\* C9: parseTokenAmount is injective on the truncated-precision domain: a
\* valid text is accepted, every valid text denoting another value once cut
\* to d fractional digits parses to another integer, and "1.5" with 6
\* decimals parses to 1500000.
C9_ParseTokenAmountInjective ==
    (ByToken /\ amount \in ValidTexts) =>
        /\ parsed.outcome.ok
        /\ LET mine == TruncatedValue(amount, decimals)
           IN  \A t \in ValidTexts :
                   (Fits(t, decimals) /\ TruncatedValue(t, decimals) # mine)
                       => parseTokenAmount(t, decimals) # parsed.outcome
        /\ (amount = <<"1", ".", "5">> /\ decimals = 6)
               => parsed.outcome.value = 1500000

\* "1.5" has been parsed with 6 decimals
C9_Witness ==
    /\ ByToken
    /\ amount = <<"1", ".", "5">>
    /\ decimals = 6
    /\ parsed.outcome = Return(1500000)

\* C10 as stated: parseIntegerAmount succeeds exactly on the texts matching
\* ^\d+$ (text with surrounding whitespace fails) and returns their value.
C10_Original ==
    ByInteger =>
        IF RefIsInteger(amount)
        THEN parsed.outcome = Return(RefNumber(amount))
        ELSE Rejected(parsed.outcome)

\* C10 (amended): parseIntegerAmount trims the text first; it succeeds if and
\* only if the trimmed text matches ^\d+$ and then returns the integer value
\* of the trimmed text; every other text (the empty and the blank text
\* included) fails with the invalid-integer error.
C10_ParseIntegerAmountTrimmed ==
    ByInteger =>
        IF RefIsInteger(RefTrim(amount))
        THEN parsed.outcome = Return(RefNumber(RefTrim(amount)))
        ELSE parsed.outcome = Throw("Invalid integer amount")

\* an integer with surrounding whitespace has been parsed
C10_Witness ==
    /\ ByInteger
    /\ amount = <<" ", "5", " ">>
    /\ parsed.outcome = Return(5)

(***************************************************************************)
(* Token account resolution: properties.                                   *)
(***************************************************************************)
AtaDone == ataCall.pc = "done"

AtaReturned == AtaDone /\ ataCall.outcome.ok

\* creation instructions for (mint, owner) that getOrCreateAtaIx returned and
\* the chain executed before the present call began
ExecutedBefore ==
    {ix \in ataCall.before :
        IsCreateAta(ix) /\ ix[5] = ataCall.mint /\ ix[4] = ataCall.owner}

\* C3: once the creation instruction returned by a call of getOrCreateAtaIx
\* for (mint, owner) has been executed on chain, a later call for the same
\* (mint, owner) returns the same address and no creation instruction.
C3_SecondCallFindsAccount ==
    AtaReturned =>
        \A ix \in ExecutedBefore :
            /\ ataCall.outcome.value.address = ix[3]
            /\ ataCall.outcome.value.instruction = NoIx

\* a call has returned after the instruction of an earlier call for the same
\* (mint, owner) was executed
C3_Witness == AtaReturned /\ ExecutedBefore # {}

\* C4: for an existing mint getOrCreateAtaIx returns a creation instruction
\* if and only if the derived address held no account when it was queried;
\* address and token program are the derived ones in both cases, and the
\* instruction is parameterized by (payer, address, owner, mint, program).
C4_CreationIffAbsent ==
    AtaReturned =>
        LET result == ataCall.outcome.value
            program == RefTokenProgram(ataCall.mint)
            address == <<"ata", ataCall.mint, ataCall.owner, program>>
        IN  /\ accounts[ataCall.mint] # NoAccount
            /\ result.address = address
            /\ result.tokenProgramId = program
            /\ (result.instruction # NoIx) <=> ~ataCall.held
            /\ result.instruction # NoIx =>
                   result.instruction =
                       <<"createAssociatedTokenAccount", ataCall.payer,
                         address, ataCall.owner, ataCall.mint, program>>

\* a creation instruction has been returned for the token account of
\* another owner than the payer, of a Token-2022 mint
C4_Witness ==
    /\ AtaReturned
    /\ ataCall.outcome.value.instruction # NoIx
    /\ ataCall.owner # ataCall.payer
    /\ ataCall.outcome.value.tokenProgramId = TOKEN_2022_PROGRAM_ID

\* C6: when the mint account does not exist the resolution fails and returns
\* nothing, with the mint-not-found error as soon as the mint query is
\* answered, and it sends no query for the associated token account.
C6_MissingMintIsFatal ==
    (AtaDone /\ accounts[ataCall.mint] = NoAccount) =>
        /\ ~ataCall.outcome.ok
        /\ "value" \notin DOMAIN ataCall.outcome
        /\ ataCall.reads = <<ataCall.mint>>
        /\ ataCall.answered >= 1 =>
               ataCall.outcome = Throw("Mint account not found")

\* a call for a missing mint has failed with the mint-not-found error
C6_Witness ==
    /\ AtaDone
    /\ accounts[ataCall.mint] = NoAccount
    /\ ataCall.answered = 1
    /\ ataCall.outcome = Throw("Mint account not found")

(***************************************************************************)
(* Position existence check: properties.                                   *)
(***************************************************************************)
PosReturned == posCall.pc = "done" /\ posCall.outcome.ok

\* C5: ensurePositionIx always returns the address derived from (position
\* seed, marketId, owner); it returns a createPosition instruction if and
\* only if no account was held at that address when it was queried, and the
\* address alone when the account exists.
C5_PositionCreationIffAbsent ==
    PosReturned =>
        LET result == posCall.outcome.value
            address == <<"pda", MORPHO_PROGRAM_ID,
                         <<"morpho_v1", "morpho_position", posCall.marketId,
                           posCall.owner>> >>
        IN  /\ result.positionPda = address
            /\ posCall.reads = <<address>>
            /\ (result.instruction # NoIx) <=> ~posCall.held
            /\ posCall.held =>
                   result = [positionPda |-> address, instruction |-> NoIx]
            /\ ~posCall.held =>
                   /\ IsCreatePosition(result.instruction)
                   /\ result.instruction[6] = address

\* the existing position of another owner than the payer has been found and
\* the address alone returned
C5_Witness ==
    /\ PosReturned
    /\ posCall.held
    /\ posCall.outcome.value.instruction = NoIx
    /\ posCall.owner # posCall.payer

(***************************************************************************)
(* Transaction assembly and submission: properties.                        *)
(***************************************************************************)
\* the positions of the present entries of a list
PresentAt(list) == {i \in 1..Len(list) : list[i] # NoIx}

\* the position of the k-th present entry
KthPresent(list, k) ==
    CHOOSE i \in PresentAt(list) :
        Cardinality({j \in PresentAt(list) : j <= i}) = k

\* the transactions handed to the signer and the network
Handed == SelectSeq(wire, LAMBDA w : w.call = "sendAndConfirm")

SendStarted == sendCall.pc # "idle"

\* C1: for a list holding at least one present instruction the transaction
\* handed to the signer/RPC holds exactly the present entries of the list,
\* each once, in their original relative order.
C1_PresentInstructionsInOrder ==
    (SendStarted /\ PresentAt(sendCall.instructions) # {}) =>
        /\ Len(Handed) = 1
        /\ Len(Handed[1].instructions)
               = Cardinality(PresentAt(sendCall.instructions))
        /\ \A k \in 1..Len(Handed[1].instructions) :
               Handed[1].instructions[k]
                   = sendCall.instructions[KthPresent(sendCall.instructions, k)]

\* [undefined, ixA, undefined, ixB] has been submitted as [ixA, ixB]
C1_Witness ==
    /\ SendStarted
    /\ sendCall.instructions = <<NoIx, <<"ixA">>, NoIx, <<"ixB">> >>
    /\ Len(Handed) = 1
    /\ Handed[1].instructions = << <<"ixA">>, <<"ixB">> >>

\* C2: a list without a present instruction makes sendInstructions fail with
\* the empty-transaction error, and neither the wallet signer nor any
\* network call (send, confirm, log fetch) is made.
C2_EmptyTransactionRefused ==
    (SendStarted /\ PresentAt(sendCall.instructions) = {}) =>
        /\ sendCall.pc = "done"
        /\ ~sendCall.outcome.ok
        /\ sendCall.outcome.error.message = <<"No instructions to send">>
        /\ wire = <<>>

\* a list of absent entries only has been refused
C2_Witness ==
    /\ SendStarted
    /\ Len(sendCall.instructions) >= 2
    /\ PresentAt(sendCall.instructions) = {}
    /\ ~sendCall.outcome.ok

(***************************************************************************)
(* Failure summary.                                                        *)
(***************************************************************************)
\* a second instruction of the transaction, logged with a trailing blank
CreatePositionLine ==
    <<"Program log:", " ", "Instruction:", " ", "CreatePosition", " ">>

SummaryLines == LogLines \cup {CreatePositionLine}

\* the logs handed to formatTxLogSummary: absent, or up to MaxLogs + 1 lines
SummaryLogs ==
    UNION {[1..n -> SummaryLines] : n \in 0..(MaxLogs + 1)} \cup {NoLogs}

InitSummary ==
    /\ ParseIdle
    /\ ChainIdle
    /\ SendIdle
    /\ PureIdle
    /\ UiIdle
    /\ PageIdle

CallFormatTxLogSummary(logs) ==
    /\ summarized = NoCall
    /\ summarized' = [pc |-> "done", logs |-> logs,
                      summary |-> formatTxLogSummary(logs)]
    /\ UNCHANGED <<parseVars, chainVars, sendVars, ataCall, posCall, derived, hashed, uiVars, page>>

NextSummary == \E logs \in SummaryLogs : CallFormatTxLogSummary(logs)

SpecSummary == InitSummary /\ [][NextSummary]_vars

(***************************************************************************)
(* Address derivation.                                                     *)
(***************************************************************************)
\* the seeds handed to the helpers as market identifier: every length up to
\* MaxSeedLen, of one repeated byte
SeedBuffers == {[i \in 1..n |-> b] : n \in 0..MaxSeedLen, b \in {0, 7}}

Derived(helper, entity, outcome) ==
    [pc |-> "done", helper |-> helper, entity |-> entity, outcome |-> outcome]

InitDerive ==
    /\ ParseIdle
    /\ ChainIdle
    /\ SendIdle
    /\ PureIdle
    /\ UiIdle
    /\ PageIdle

CallGetProtocolStatePDA ==
    /\ derived = NoCall
    /\ derived' = Derived("getProtocolStatePDA", <<>>, getProtocolStatePDA)
    /\ UNCHANGED <<parseVars, chainVars, sendVars, ataCall, posCall, hashed, summarized, uiVars, page>>

CallGetMarketPDA(marketId) ==
    /\ derived = NoCall
    /\ derived' = Derived("getMarketPDA", <<marketId>>, getMarketPDA(marketId))
    /\ UNCHANGED <<parseVars, chainVars, sendVars, ataCall, posCall, hashed, summarized, uiVars, page>>

CallGetPositionPDA(marketId, owner) ==
    /\ derived = NoCall
    /\ derived' = Derived("getPositionPDA", <<marketId, owner>>,
                          getPositionPDA(marketId, owner))
    /\ UNCHANGED <<parseVars, chainVars, sendVars, ataCall, posCall, hashed, summarized, uiVars, page>>

CallGetLoanVaultPDA(marketId) ==
    /\ derived = NoCall
    /\ derived' = Derived("getLoanVaultPDA", <<marketId>>,
                          getLoanVaultPDA(marketId))
    /\ UNCHANGED <<parseVars, chainVars, sendVars, ataCall, posCall, hashed, summarized, uiVars, page>>

CallGetCollateralVaultPDA(marketId) ==
    /\ derived = NoCall
    /\ derived' = Derived("getCollateralVaultPDA", <<marketId>>,
                          getCollateralVaultPDA(marketId))
    /\ UNCHANGED <<parseVars, chainVars, sendVars, ataCall, posCall, hashed, summarized, uiVars, page>>

CallGetAuthorizationPDA(authorizer, authorized) ==
    /\ derived = NoCall
    /\ derived' = Derived("getAuthorizationPDA", <<authorizer, authorized>>,
                          getAuthorizationPDA(authorizer, authorized))
    /\ UNCHANGED <<parseVars, chainVars, sendVars, ataCall, posCall, hashed, summarized, uiVars, page>>

NextDerive ==
    \/ CallGetProtocolStatePDA
    \/ \E marketId \in SeedBuffers : CallGetMarketPDA(marketId)
    \/ \E marketId \in SeedBuffers, owner \in Owners :
           CallGetPositionPDA(marketId, owner)
    \/ \E marketId \in SeedBuffers : CallGetLoanVaultPDA(marketId)
    \/ \E marketId \in SeedBuffers : CallGetCollateralVaultPDA(marketId)
    \/ \E authorizer \in Owners, authorized \in Owners :
           CallGetAuthorizationPDA(authorizer, authorized)

SpecDerive == InitDerive /\ [][NextDerive]_vars

\* one helper or another is called after a first call; both calls are kept
DerivesAgain(helper, entity, outcome) ==
    /\ derived.pc = "done"
    /\ "before" \notin DOMAIN derived
    /\ derived' = [pc |-> "done", helper |-> helper, entity |-> entity,
                   outcome |-> outcome, before |-> derived]
    /\ UNCHANGED <<parseVars, chainVars, sendVars, ataCall, posCall, hashed, summarized, uiVars, page>>

NextDerivePair ==
    \/ NextDerive
    \/ DerivesAgain("getProtocolStatePDA", <<>>, getProtocolStatePDA)
    \/ \E marketId \in SeedBuffers :
           DerivesAgain("getMarketPDA", <<marketId>>, getMarketPDA(marketId))
    \/ \E marketId \in SeedBuffers, owner \in Owners :
           DerivesAgain("getPositionPDA", <<marketId, owner>>,
                        getPositionPDA(marketId, owner))
    \/ \E marketId \in SeedBuffers :
           DerivesAgain("getLoanVaultPDA", <<marketId>>,
                        getLoanVaultPDA(marketId))
    \/ \E marketId \in SeedBuffers :
           DerivesAgain("getCollateralVaultPDA", <<marketId>>,
                        getCollateralVaultPDA(marketId))
    \/ \E authorizer \in Owners, authorized \in Owners :
           DerivesAgain("getAuthorizationPDA", <<authorizer, authorized>>,
                        getAuthorizationPDA(authorizer, authorized))

SpecDerivePair == InitDerive /\ [][NextDerivePair]_vars

(***************************************************************************)
(* Market identifier computation.                                          *)
(*                                                                         *)
(* A public key is the number it encodes; its buffer is that number in 32  *)
(* big-endian bytes.  Keccak-256 is kept as a function of the bytes hashed.*)
(***************************************************************************)
\* bytes of a public key
PUBLIC_KEY_LENGTH == 32

\* width of the buffer the LLTV is written to
LltvWidth == 8

\* BN.prototype.toArrayLike(Buffer, 'be', length)
RECURSIVE toArrayLike_be(_, _)
toArrayLike_be(n, length) ==
    IF length = 0 THEN <<>>
    ELSE Append(toArrayLike_be(n \div 256, length - 1), n % 256)

\* BN.prototype.toArrayLike(Buffer, 'le', length): the lowest byte first,
\* zero-padded to the length
RECURSIVE toArrayLike(_, _)
toArrayLike(n, length) ==
    IF length = 0 THEN <<>>
    ELSE <<n % 256>> \o toArrayLike(n \div 256, length - 1)

\* PublicKey.prototype.toBuffer: 32 bytes, the highest first
toBuffer(key) == toArrayLike_be(key, PUBLIC_KEY_LENGTH)

\* keccak256(data) of js-sha3, read back from its hex text as a Buffer
keccak256(data) == <<"keccak256", data>>

\* the public keys and the LLTV values a market is created from
HashKeys == {1, 2, 258}

Lltvs == {0, 1, 255, 256, 8000, 10000, 65536, 16777217, 2147483647}

\* the loan mint is written in front of the collateral mint
calculateMarketId_loanFirst(collateralMint, loanMint, oracle, irm, lltv) ==
    LET lltvBuffer == toArrayLike(lltv, LltvWidth)
        data == toBuffer(loanMint) \o toBuffer(collateralMint)
                    \o toBuffer(oracle) \o toBuffer(irm) \o lltvBuffer
    IN  keccak256(data)

calculateMarketId(collateralMint, loanMint, oracle, irm, lltv) ==
    LET lltvBuffer == toArrayLike(lltv, LltvWidth)
        data == toBuffer(collateralMint) \o toBuffer(loanMint)
                    \o toBuffer(oracle) \o toBuffer(irm) \o lltvBuffer
    IN  keccak256(data)

InitMarketId ==
    /\ ParseIdle
    /\ ChainIdle
    /\ SendIdle
    /\ PureIdle
    /\ UiIdle
    /\ PageIdle

CallCalculateMarketId(collateralMint, loanMint, oracle, irm, lltv) ==
    /\ hashed = NoCall
    /\ hashed' = [pc |-> "done", collateralMint |-> collateralMint,
                  loanMint |-> loanMint, oracle |-> oracle, irm |-> irm,
                  lltv |-> lltv,
                  outcome |-> calculateMarketId(collateralMint, loanMint,
                                                oracle, irm, lltv)]
    /\ UNCHANGED <<parseVars, chainVars, sendVars, ataCall, posCall, derived, summarized, uiVars, page>>

NextMarketId ==
    \E collateralMint \in HashKeys, loanMint \in HashKeys, oracle \in HashKeys,
       irm \in HashKeys, lltv \in Lltvs :
        CallCalculateMarketId(collateralMint, loanMint, oracle, irm, lltv)

SpecMarketId == InitMarketId /\ [][NextMarketId]_vars

(***************************************************************************)
(* User actions.                                                           *)
(***************************************************************************)
\* the market the pages show: identifier, address, mints, oracle, decimals
PageMarketId == <<0, 0, 1>>

marketKey == getMarketPDA(PageMarketId).value[1]

LoanMint == Key("loanMint")

CollateralMint == Key("collateralMint")

Oracle == Key("oracle")

loanDecimals == 6

collateralDecimals == 4

\* protocolState.feeRecipient
FeeRecipient == Key("other")

\* selectedPos.account.owner
Borrower == Key("other")

\* the market lends wrapped SOL: its loan mint is the native mint
NATIVE_MINT == LoanMint

\* texts of the amount field: empty, "100.00", "a", "7"
AmountTexts == {<<>>, <<"1", "0", "0", ".", "0", "0">>, <<"a">>, <<"7">>}

\* what the parseTokenAmount statements of a handler make of the text its
\* closure holds: a function of the text alone, kept with the text
TokenAmounts(text, steps) ==
    {[decimals |-> steps[i][2],
      outcome |-> parseTokenAmount(text, steps[i][2])] :
         i \in {j \in DOMAIN steps : steps[j][1] = "parseTokenAmount"}}

\* parseTokenAmount(frame.amount, d)
TokenAmount(frame, d) ==
    (CHOOSE entry \in frame.parses : entry.decimals = d).outcome

\* what provider.sendAndConfirm fails with under a handler: the wallet's
\* refusal, a failed transaction whose logs are on chain, a thrown object
SubmitErrors ==
    {[class |-> "Error", isError |-> TRUE, hasLogs |-> FALSE, logs |-> NoLogs,
      message |-> <<"User rejected the request">>],
     [class |-> "SendTransactionError", isError |-> TRUE, hasLogs |-> FALSE,
      logs |-> <<InstructionLine, AnchorLine>>,
      message |-> <<"Simulation failed">>],
     [class |-> "object", isError |-> FALSE, hasLogs |-> TRUE,
      logs |-> <<AnchorLine>>, message |-> <<"failed">>]}

\* program.methods.<name>(marketIdArray, ...args).accounts(accts).instruction()
MethodIx(name, args, accts) == <<name, PageMarketId, args, accts>>

\* SystemProgram.transfer
transferIx(fromPubkey, toPubkey, lamports) ==
    <<"transfer", <<>>, <<lamports>>,
      [fromPubkey |-> fromPubkey, toPubkey |-> toPubkey]>>

\* createSyncNativeInstruction
createSyncNativeInstruction(ata) ==
    <<"syncNative", <<>>, <<>>, [account |-> ata]>>

\* the steps of the handlers, in the order of their statements: a call that
\* is awaited, a synchronous statement that may throw, or the submission
\* the position is resolved before the token account
handleSupply_positionFirst ==
    <<(<<"ensurePositionIx", Wallet>>), (<<"getOrCreateAtaIx", LoanMint>>),
      (<<"parseTokenAmount", loanDecimals>>),
      (<<"parseIntegerAmount", <<"0">> >>),
      (<<"sendInstructions", "supply">>)>>

handleSupply ==
    <<(<<"getOrCreateAtaIx", LoanMint>>), (<<"ensurePositionIx", Wallet>>),
      (<<"parseTokenAmount", loanDecimals>>),
      (<<"parseIntegerAmount", <<"0">> >>),
      (<<"sendInstructions", "supply">>)>>

handleWrapSol ==
    <<(<<"parseTokenAmount", loanDecimals>>), (<<"buildWrapSolInstructions">>),
      (<<"getOrCreateAtaIx", NATIVE_MINT>>), (<<"sendInstructions", "wrap">>)>>

\* the field is parsed as assets and as shares whatever the mode
ParseByMode_both(mode) ==
    <<(<<"parseTokenAmount", loanDecimals>>), (<<"parseIntegerAmount">>)>>

\* assets and shares as the mode of the tab has them parsed
ParseByMode(mode) ==
    IF mode = "assets"
    THEN <<(<<"parseTokenAmount", loanDecimals>>),
           (<<"parseIntegerAmount", <<"0">> >>)>>
    ELSE <<(<<"parseIntegerAmount", <<"0">> >>), (<<"parseIntegerAmount">>)>>

handleWithdraw(mode) ==
    <<(<<"getPositionPDA", Wallet>>), (<<"getOrCreateAtaIx", LoanMint>>)>>
        \o ParseByMode(mode) \o <<(<<"sendInstructions", "withdraw">>)>>

handleCollateral(action) ==
    <<(<<"getOrCreateAtaIx", CollateralMint>>),
      (<<"parseTokenAmount", collateralDecimals>>)>>
        \o (IF action = "deposit"
            THEN <<(<<"ensurePositionIx", Wallet>>),
                   (<<"sendInstructions", "supplyCollateral">>)>>
            ELSE <<(<<"getPositionPDA", Wallet>>),
                   (<<"sendInstructions", "withdrawCollateral">>)>>)

handleBorrow ==
    <<(<<"getOrCreateAtaIx", LoanMint>>), (<<"ensurePositionIx", Wallet>>),
      (<<"parseTokenAmount", loanDecimals>>),
      (<<"parseIntegerAmount", <<"0">> >>),
      (<<"sendInstructions", "borrow">>)>>

handleRepay(mode) ==
    <<(<<"getPositionPDA", Wallet>>), (<<"getOrCreateAtaIx", LoanMint>>)>>
        \o ParseByMode(mode) \o <<(<<"sendInstructions", "repay">>)>>

executeFlashLoan(type) ==
    <<(<<"getOrCreateAtaIx", LoanMint>>),
      (<<"parseTokenAmount", loanDecimals>>),
      (<<"sendInstructions",
         IF type = "single" THEN "flashLoan"
         ELSE IF type = "start" THEN "flashLoanStart" ELSE "flashLoanEnd">>)>>

handleCreatePosition ==
    <<(<<"ensurePositionIx", Wallet>>), (<<"positionIx">>),
      (<<"sendInstructions", "createPosition">>)>>

handleLiquidation ==
    <<(<<"getPositionPDA", Borrower>>), (<<"getOrCreateAtaIx", LoanMint>>),
      (<<"getOrCreateAtaIx", CollateralMint>>),
      (<<"sameTokenProgram",
         "Loan and collateral mints use different token programs">>),
      (<<"parseTokenAmount", loanDecimals>>),
      (<<"sendInstructions", "liquidate">>)>>

handleClaimFees ==
    <<(<<"ensurePositionIx", FeeRecipient>>),
      (<<"sendInstructions", "claimFees">>)>>

handleCreateMarket ==
    <<(<<"calculateMarketId">>), (<<"getTokenProgramId", CollateralMint>>),
      (<<"getTokenProgramId", LoanMint>>),
      (<<"sameTokenProgram",
         "Collateral and loan mints use different token programs">>),
      (<<"parseIntegerAmount">>), (<<"rpc", "createMarket">>)>>

handleClosePosition == <<(<<"rpc", "closePosition">>)>>

Handlers ==
    {"handleSupply", "handleWrapSol", "handleWithdraw", "handleCollateral",
     "handleBorrow", "handleRepay", "executeFlashLoan",
     "handleCreatePosition", "handleLiquidation", "handleClaimFees",
     "handleCreateMarket", "handleClosePosition"}

\* the mode, action or type a handler runs under
Variants(handler) ==
    IF handler \in {"handleWithdraw", "handleRepay"} THEN {"assets", "shares"}
    ELSE IF handler = "handleCollateral" THEN {"deposit", "withdraw"}
    ELSE IF handler = "executeFlashLoan" THEN {"single", "start", "end"}
    ELSE {"-"}

Steps(handler, variant) ==
    CASE handler = "handleSupply" -> handleSupply
      [] handler = "handleWrapSol" -> handleWrapSol
      [] handler = "handleWithdraw" -> handleWithdraw(variant)
      [] handler = "handleCollateral" -> handleCollateral(variant)
      [] handler = "handleBorrow" -> handleBorrow
      [] handler = "handleRepay" -> handleRepay(variant)
      [] handler = "executeFlashLoan" -> executeFlashLoan(variant)
      [] handler = "handleCreatePosition" -> handleCreatePosition
      [] handler = "handleLiquidation" -> handleLiquidation
      [] handler = "handleClaimFees" -> handleClaimFees
      [] handler = "handleCreateMarket" -> handleCreateMarket
      [] handler = "handleClosePosition" -> handleClosePosition

\* the in-flight flag a handler sets
FlagOf(handler) ==
    CASE handler = "handleWrapSol" -> "wrapping"
      [] handler = "handleCreatePosition" -> "creatingPosition"
      [] handler \in {"handleClaimFees", "handleCreateMarket"} ->
             "pendingAction"
      [] handler = "handleClosePosition" -> "pendingClose"
      [] OTHER -> "submitting"

\* the handlers reading an amount field
ReadsAmount(handler) ==
    handler \notin {"handleCreatePosition", "handleClaimFees",
                    "handleClosePosition"}

\* the handlers go on without a position in the cached list
Refuses_ignoresPosition(handler, variant, text, positionExists) ==
    IF ReadsAmount(handler) /\ text = <<>>
    THEN IF handler = "handleWrapSol" THEN <<"error">> ELSE <<>>
    ELSE <<"no">>

\* the early returns of a handler: "no", or the toasts it leaves
Refuses(handler, variant, text, positionExists) ==
    IF ReadsAmount(handler) /\ text = <<>>
    THEN IF handler = "handleWrapSol" THEN <<"error">> ELSE <<>>
    ELSE IF /\ ~positionExists
            /\ \/ handler \in {"handleWithdraw", "handleRepay"}
               \/ handler = "handleCollateral" /\ variant = "withdraw"
    THEN <<"error">>
    ELSE <<"no">>

\* the handlers emptying their amount field after a success
ClearsAmount(handler) ==
    handler \notin {"handleWrapSol", "handleCreatePosition",
                    "handleClaimFees", "handleClosePosition"}

\* a handler past its early returns: the flag is set, the loading toast shown
Started(handler, variant, text) ==
    [pc |-> "building", handler |-> handler, variant |-> variant,
     flag |-> FlagOf(handler), amount |-> text,
     parses |-> TokenAmounts(text, Steps(handler, variant)),
     rest |-> Steps(handler, variant), ixs |-> <<>>, atas |-> <<>>,
     args |-> <<>>, position |-> <<>>, marketId |-> <<>>,
     toasts |-> <<"loading">>, description |-> <<>>]

\* a handler that returned early
Refused(handler, variant, text, toasts) ==
    [pc |-> "refused", handler |-> handler, variant |-> variant,
     flag |-> "none", amount |-> text, parses |-> {}, rest |-> <<>>,
     ixs |-> <<>>, atas |-> <<>>, args |-> <<>>, position |-> <<>>,
     marketId |-> <<>>, toasts |-> toasts, description |-> <<>>]

\* the flag stays set
Finally_skipped(frame) == frame

\* finally { setSubmitting(false) }
Finally(frame) == [frame EXCEPT !.flag = "none"]

\* the catch block shows nothing: the loading toast stays
Failed_keepsLoading(frame, description) ==
    Finally([frame EXCEPT !.pc = "failed", !.description = description])

\* catch (error) { toast.error(...) } finally { ... }
Failed(frame, description) ==
    Finally([frame EXCEPT !.pc = "failed",
                          !.toasts = Append(@, "error"),
                          !.description = description])

\* toast.success(..., {description: signature}) and the finally block
Succeeded(frame, signature) ==
    Finally([frame EXCEPT !.pc = "success", !.rest = <<>>,
                          !.toasts = Append(@, "success"),
                          !.description = <<signature>>])

\* toast.info('Position already exists'); return; and the finally block
Informed(frame) ==
    Finally([frame EXCEPT !.pc = "info", !.rest = <<>>,
                          !.toasts = Append(@, "info")])

\* the protocol instruction a handler builds from what it resolved
Instruction(kind, frame) ==
    LET protocolState == getProtocolStatePDA.value[1]
        loanVault == getLoanVaultPDA(PageMarketId).value[1]
        collateralVault == getCollateralVaultPDA(PageMarketId).value[1]
    IN  CASE kind = "supply" ->
                 MethodIx("supply", frame.args,
                          [supplier |-> Wallet,
                           protocolState |-> protocolState,
                           market |-> marketKey,
                           position |-> frame.position,
                           onBehalfOf |-> Wallet,
                           supplierTokenAccount |-> frame.atas[1].address,
                           loanVault |-> loanVault, loanMint |-> LoanMint,
                           tokenProgram |-> frame.atas[1].tokenProgramId])
          [] kind = "withdraw" ->
                 MethodIx("withdraw", frame.args,
                          [caller |-> Wallet,
                           protocolState |-> protocolState,
                           market |-> marketKey,
                           position |-> frame.position,
                           receiverTokenAccount |-> frame.atas[1].address,
                           loanVault |-> loanVault, loanMint |-> LoanMint,
                           tokenProgram |-> frame.atas[1].tokenProgramId])
          [] kind = "supplyCollateral" ->
                 MethodIx("supplyCollateral", frame.args,
                          [depositor |-> Wallet,
                           protocolState |-> protocolState,
                           market |-> marketKey,
                           position |-> frame.position,
                           onBehalfOf |-> Wallet,
                           depositorTokenAccount |-> frame.atas[1].address,
                           collateralVault |-> collateralVault,
                           collateralMint |-> CollateralMint,
                           tokenProgram |-> frame.atas[1].tokenProgramId])
          [] kind = "withdrawCollateral" ->
                 MethodIx("withdrawCollateral", frame.args,
                          [caller |-> Wallet,
                           protocolState |-> protocolState,
                           market |-> marketKey,
                           position |-> frame.position,
                           oracle |-> Oracle,
                           receiverTokenAccount |-> frame.atas[1].address,
                           collateralVault |-> collateralVault,
                           collateralMint |-> CollateralMint,
                           tokenProgram |-> frame.atas[1].tokenProgramId])
          [] kind = "borrow" ->
                 MethodIx("borrow", frame.args,
                          [caller |-> Wallet,
                           protocolState |-> protocolState,
                           market |-> marketKey,
                           position |-> frame.position,
                           oracle |-> Oracle,
                           receiverTokenAccount |-> frame.atas[1].address,
                           loanVault |-> loanVault, loanMint |-> LoanMint,
                           tokenProgram |-> frame.atas[1].tokenProgramId])
          [] kind = "repay" ->
                 MethodIx("repay", frame.args,
                          [repayer |-> Wallet, market |-> marketKey,
                           position |-> frame.position,
                           onBehalfOf |-> Wallet,
                           repayerTokenAccount |-> frame.atas[1].address,
                           loanVault |-> loanVault, loanMint |-> LoanMint,
                           tokenProgram |-> frame.atas[1].tokenProgramId])
          [] kind \in {"flashLoan", "flashLoanStart"} ->
                 MethodIx(kind, frame.args,
                          [borrower |-> Wallet,
                           protocolState |-> protocolState,
                           market |-> marketKey,
                           borrowerTokenAccount |-> frame.atas[1].address,
                           loanVault |-> loanVault, loanMint |-> LoanMint,
                           tokenProgram |-> frame.atas[1].tokenProgramId])
          [] kind = "flashLoanEnd" ->
                 MethodIx("flashLoanEnd", frame.args,
                          [borrower |-> Wallet, market |-> marketKey,
                           borrowerTokenAccount |-> frame.atas[1].address,
                           loanVault |-> loanVault, loanMint |-> LoanMint,
                           tokenProgram |-> frame.atas[1].tokenProgramId])
          [] kind = "liquidate" ->
                 MethodIx("liquidate", frame.args,
                          [liquidator |-> Wallet, market |-> marketKey,
                           borrowerPosition |-> frame.position,
                           borrower |-> Borrower, oracle |-> Oracle,
                           liquidatorLoanAccount |-> frame.atas[1].address,
                           liquidatorCollateralAccount |->
                               frame.atas[2].address,
                           loanVault |-> loanVault,
                           collateralVault |-> collateralVault,
                           loanMint |-> LoanMint,
                           collateralMint |-> CollateralMint,
                           tokenProgram |-> frame.atas[1].tokenProgramId])
          [] kind = "claimFees" ->
                 MethodIx("claimFees", <<>>,
                          [protocolState |-> protocolState,
                           market |-> marketKey,
                           feePosition |-> frame.position])
          [] kind = "createMarket" ->
                 MethodIx("createMarket", frame.args,
                          [creator |-> Wallet,
                           protocolState |-> protocolState,
                           market |-> getMarketPDA(frame.marketId).value[1],
                           collateralMint |-> CollateralMint,
                           loanMint |-> LoanMint,
                           collateralVault |->
                               getCollateralVaultPDA(frame.marketId).value[1],
                           loanVault |->
                               getLoanVaultPDA(frame.marketId).value[1],
                           oracle |-> Oracle,
                           tokenProgram |-> frame.atas[2].tokenProgramId])
          [] kind = "closePosition" ->
                 MethodIx("closePosition", <<>>,
                          [owner |-> Wallet, rentReceiver |-> Wallet,
                           position |-> ProgramPosition(PageMarketId,
                                                        Wallet)])

\* the creations are put behind the instruction of the protocol
Instructions_creationsLast(kind, frame) ==
    CASE kind = "wrap" ->
             FilterBoolean(
                 <<transferIx(Wallet, frame.atas[1].address, frame.args[1]),
                   createSyncNativeInstruction(frame.atas[1].address)>>
                 \o frame.ixs)
      [] kind = "createPosition" -> frame.ixs
      [] OTHER -> <<Instruction(kind, frame)>> \o frame.ixs

\* the list a handler hands to sendInstructions
Instructions(kind, frame) ==
    CASE kind = "wrap" ->
             FilterBoolean(
                 frame.ixs \o
                 <<transferIx(Wallet, frame.atas[1].address, frame.args[1]),
                   createSyncNativeInstruction(frame.atas[1].address)>>)
      [] kind = "createPosition" -> frame.ixs
      [] OTHER -> Append(frame.ixs, Instruction(kind, frame))

\* Number(text) is NaN, on the texts of AmountTexts
NumberIsNaN(text) == ~DecimalPattern(Trim(text))

\* the text is read as a percentage and scaled to basis points
Number_scaled(text) ==
    LET pieces == SplitPoint(Trim(text), <<>>)
    IN  IF NumberIsNaN(text) THEN [nan |-> TRUE]
        ELSE [nan |-> FALSE, whole |-> 100 * DigitsToNat(pieces[1]),
              fraction |-> <<>>]

\* Number(text), on the texts of AmountTexts: NaN, or the value as its whole
\* part and the digits of its fraction
Number(text) ==
    LET pieces == SplitPoint(Trim(text), <<>>)
    IN  IF NumberIsNaN(text) THEN [nan |-> TRUE]
        ELSE [nan |-> FALSE, whole |-> DigitsToNat(pieces[1]),
              fraction |-> IF Len(pieces) >= 2 THEN pieces[2] ELSE <<>>]

\* new BN(number): the fraction is cut off; NaN fails the assertion of the
\* constructor
BN(number) ==
    IF number.nan THEN Throw("Assertion failed") ELSE Return(number.whole)

Irm == Key("irm")

\* the number a key entered in the Create Market form encodes
KeyNumber(key) ==
    CASE key = CollateralMint -> 1
      [] key = LoanMint -> 2
      [] key = Oracle -> 258
      [] key = Irm -> 2

\* calculateMarketId(collateralMint, loanMint, oracle, irm, lltv) over the
\* keys of the form
FormMarketId(lltv) ==
    calculateMarketId(KeyNumber(CollateralMint), KeyNumber(LoanMint),
                      KeyNumber(Oracle), KeyNumber(Irm), lltv)

\* a synchronous statement: the frame it leaves, the error it throws, or the
\* return of the handler
Statement(step, frame) ==
    LET next == [frame EXCEPT !.rest = Tail(@)]
        kind == step[1]
    IN  CASE kind = "getPositionPDA" ->
                 LET position == getPositionPDA(PageMarketId, step[2])
                 IN  IF position.ok
                     THEN Return([next EXCEPT
                                      !.position = position.value[1]])
                     ELSE position
          [] kind = "parseTokenAmount" ->
                 LET bn == TokenAmount(frame, step[2])
                 IN  IF bn.ok
                     THEN Return([next EXCEPT
                                      !.args = Append(@, bn.value)])
                     ELSE bn
          [] kind = "parseIntegerAmount" ->
                 LET bn == parseIntegerAmount(
                               IF Len(step) = 2 THEN step[2]
                               ELSE frame.amount)
                 IN  IF bn.ok
                     THEN Return([next EXCEPT
                                      !.args = Append(@, bn.value)])
                     ELSE bn
          [] kind = "sameTokenProgram" ->
                 IF frame.atas[1].tokenProgramId
                        = frame.atas[2].tokenProgramId
                 THEN Return(next)
                 ELSE Throw(step[2])
          [] kind = "buildWrapSolInstructions" ->
                 IF frame.args[1] <= 0 THEN Throw("Invalid wrap amount")
                 ELSE Return(next)
          [] kind = "calculateMarketId" ->
                 LET lltvValue == Number(Trim(frame.amount))
                     bn == BN(lltvValue)
                 IN  IF bn.ok
                     THEN Return([next EXCEPT
                                      !.marketId = FormMarketId(bn.value)])
                     ELSE bn
          [] kind = "positionIx" ->
                 IF frame.ixs[1] = NoIx THEN [ok |-> TRUE, returns |-> TRUE]
                 ELSE Return(next)

IsStatement(step) ==
    step[1] \in {"getPositionPDA", "parseTokenAmount", "parseIntegerAmount",
                 "sameTokenProgram", "buildWrapSolInstructions",
                 "calculateMarketId", "positionIx"}

Resting == {"idle", "refused", "success", "failed", "info"}

\* the step a running handler is at
AtStep(kind) ==
    /\ ui.pc \notin Resting
    /\ ui.rest # <<>>
    /\ Head(ui.rest)[1] = kind

\* the chain holds both mints, the loan mint under the classic token
\* program, and no token account or position; no action is under way
InitAction ==
    /\ ParseIdle
    /\ \E program \in TokenPrograms :
           accounts = [a \in Addresses |->
                          IF a = LoanMint THEN TOKEN_PROGRAM_ID
                          ELSE IF a = CollateralMint THEN program
                          ELSE NoAccount]
    /\ ataCall = NoCall
    /\ posCall = NoCall
    /\ returned = {}
    /\ executed = {}
    /\ calls = 0
    /\ SendIdle
    /\ PureIdle
    /\ UiIdle
    /\ PageIdle

\* the user edits the amount field between two actions
UserTypes(text) ==
    /\ ui.pc \in Resting
    /\ text # amount
    /\ amount' = text
    /\ UNCHANGED <<decimals, parsed, pureVars, uiVars, ataCall, posCall, chainVars, sendVars, page>>

\* a handler is invoked: it returns early, or sets its flag, shows the
\* loading toast and enters its try block
ActionStart(handler, variant, positionExists) ==
    /\ ui.pc \in Resting
    /\ ui' = IF Refuses(handler, variant, amount, positionExists) = <<"no">>
             THEN Started(handler, variant, amount)
             ELSE Refused(handler, variant, amount,
                          Refuses(handler, variant, amount, positionExists))
    /\ parsed' = NotParsed
    /\ decimals' = 0
    /\ ataCall' = NoCall
    /\ posCall' = NoCall
    /\ sendCall' = NoCall
    /\ wire' = <<>>
    /\ UNCHANGED <<amount, pureVars, chainVars, page>>

\* await getOrCreateAtaIx({payer: wallet, owner: wallet, mint})
AwaitsAta ==
    /\ ui.pc = "building"
    /\ AtStep("getOrCreateAtaIx")
    /\ getOrCreateAtaIx(Wallet, Wallet, Head(ui.rest)[2])
    /\ ui' = [ui EXCEPT !.pc = "awaiting"]
    /\ UNCHANGED <<parseVars, pureVars, posCall, chainVars, sendVars, page>>

\* getOrCreateAtaIx has settled: its result is taken, or its error caught
ResumesAta ==
    /\ ui.pc = "awaiting"
    /\ AtStep("getOrCreateAtaIx")
    /\ ataCall.pc = "done"
    /\ ui' = IF ataCall.outcome.ok
             THEN [ui EXCEPT !.pc = "building", !.rest = Tail(@),
                             !.ixs = Append(@, ataCall.outcome.value
                                                   .instruction),
                             !.atas = Append(@, ataCall.outcome.value)]
             ELSE Failed(ui, <<ataCall.outcome.error>>)
    /\ UNCHANGED <<parseVars, pureVars, ataCall, posCall, chainVars, sendVars, page>>

\* await ensurePositionIx({marketId, market, owner, payer: wallet})
AwaitsPosition ==
    /\ ui.pc = "building"
    /\ AtStep("ensurePositionIx")
    /\ ensurePositionIx(PageMarketId, marketKey, Head(ui.rest)[2], Wallet)
    /\ ui' = [ui EXCEPT !.pc = "awaiting"]
    /\ UNCHANGED <<parseVars, pureVars, ataCall, chainVars, sendVars, page>>

\* ensurePositionIx has settled: its result is taken, or its error caught
ResumesPosition ==
    /\ ui.pc = "awaiting"
    /\ AtStep("ensurePositionIx")
    /\ posCall.pc = "done"
    /\ ui' = IF posCall.outcome.ok
             THEN [ui EXCEPT !.pc = "building", !.rest = Tail(@),
                             !.ixs = Append(@, posCall.outcome.value
                                                   .instruction),
                             !.position = posCall.outcome.value.positionPda]
             ELSE Failed(ui, <<posCall.outcome.error>>)
    /\ UNCHANGED <<parseVars, pureVars, ataCall, posCall, chainVars, sendVars, page>>

\* await getTokenProgramId(connection, mint): the query is sent
AwaitsTokenProgram ==
    /\ ui.pc = "building"
    /\ AtStep("getTokenProgramId")
    /\ ui' = [ui EXCEPT !.pc = "awaiting"]
    /\ UNCHANGED <<parseVars, pureVars, ataCall, posCall, chainVars, sendVars, page>>

\* the mint's account info arrives: the token program is taken, or the
\* error of getTokenProgramId caught
TokenProgramArrives ==
    /\ ui.pc = "awaiting"
    /\ AtStep("getTokenProgramId")
    /\ LET program == getTokenProgramId(getAccountInfo(Head(ui.rest)[2]))
       IN  ui' = IF program.ok
                 THEN [ui EXCEPT !.pc = "building", !.rest = Tail(@),
                                 !.atas = Append(@, [tokenProgramId |->
                                                         program.value])]
                 ELSE Failed(ui, <<program.error>>)
    /\ UNCHANGED <<parseVars, pureVars, ataCall, posCall, chainVars, sendVars, page>>

\* the query is rejected by the RPC node and the error caught
TokenProgramQueryFails ==
    /\ ui.pc = "awaiting"
    /\ AtStep("getTokenProgramId")
    /\ ui' = Failed(ui, <<"rpc error">>)
    /\ UNCHANGED <<parseVars, pureVars, ataCall, posCall, chainVars, sendVars, page>>

\* a synchronous statement of the try block runs: the handler goes on,
\* catches what it throws, or returns
Runs ==
    /\ ui.pc = "building"
    /\ ui.rest # <<>>
    /\ IsStatement(Head(ui.rest))
    /\ LET step == Head(ui.rest)
           result == Statement(step, ui)
           ofField == /\ step[1] \in {"parseTokenAmount", "parseIntegerAmount"}
                      /\ Len(step) = 1 \/ step[1] = "parseTokenAmount"
       IN  /\ ui' = IF ~result.ok THEN Failed(ui, <<result.error>>)
                    ELSE IF "returns" \in DOMAIN result THEN Informed(ui)
                    ELSE result.value
           /\ parsed' = IF ofField
                        THEN [by |-> step[1],
                              outcome |->
                                  IF step[1] = "parseTokenAmount"
                                  THEN TokenAmount(ui, step[2])
                                  ELSE parseIntegerAmount(ui.amount)]
                        ELSE parsed
           /\ decimals' = IF step[1] = "parseTokenAmount" THEN step[2]
                          ELSE decimals
    /\ UNCHANGED <<amount, pureVars, ataCall, posCall, chainVars, sendVars, page>>

\* await sendInstructions({connection, wallet, instructions})
Submits ==
    /\ ui.pc = "building"
    /\ AtStep("sendInstructions")
    /\ sendInstructions(Instructions(Head(ui.rest)[2], ui))
    /\ ui' = [ui EXCEPT !.pc = "submitting"]
    /\ UNCHANGED <<parseVars, pureVars, ataCall, posCall, chainVars, page>>

\* the success toast is shown whatever sendInstructions settled with
ResumesSubmit_unchecked ==
    /\ ui.pc = "submitting"
    /\ AtStep("sendInstructions")
    /\ sendCall.pc = "done"
    /\ ui' = Succeeded(ui, "signature")
    /\ amount' = IF ClearsAmount(ui.handler) THEN <<>> ELSE amount
    /\ UNCHANGED <<decimals, parsed, pureVars, ataCall, posCall, chainVars, sendVars, page>>

\* sendInstructions has settled: the success toast is shown and the field
\* emptied, or the error caught; the flag is cleared
ResumesSubmit ==
    /\ ui.pc = "submitting"
    /\ AtStep("sendInstructions")
    /\ sendCall.pc = "done"
    /\ ui' = IF sendCall.outcome.ok
             THEN Succeeded(ui, sendCall.outcome.value)
             ELSE Failed(ui, IF sendCall.outcome.error.isError
                             THEN sendCall.outcome.error.message
                             ELSE <<"Unknown error">>)
    /\ amount' = IF sendCall.outcome.ok /\ ClearsAmount(ui.handler)
                 THEN <<>> ELSE amount
    /\ UNCHANGED <<decimals, parsed, pureVars, ataCall, posCall, chainVars, sendVars, page>>

\* await program.methods.<name>(...).accounts(...).rpc()
CallsRpc ==
    /\ ui.pc = "building"
    /\ AtStep("rpc")
    /\ ui' = [ui EXCEPT !.pc = "submitting"]
    /\ wire' = Append(wire, [call |-> "rpc",
                             instructions |->
                                 <<Instruction(Head(ui.rest)[2], ui)>>,
                             feePayer |-> Wallet])
    /\ UNCHANGED <<parseVars, pureVars, ataCall, posCall, chainVars, sendCall, page>>

\* rpc() returns the signature of the confirmed transaction: closePosition
\* has closed the position it found
RpcConfirmed ==
    /\ ui.pc = "submitting"
    /\ AtStep("rpc")
    /\ Head(ui.rest)[2] = "closePosition" =>
           accounts[ProgramPosition(PageMarketId, Wallet)] # NoAccount
    /\ accounts' = IF Head(ui.rest)[2] = "closePosition"
                   THEN [accounts EXCEPT
                             ![ProgramPosition(PageMarketId, Wallet)] =
                                 NoAccount]
                   ELSE accounts
    /\ ui' = Succeeded(ui, "signature")
    /\ amount' = IF ClearsAmount(ui.handler) THEN <<>> ELSE amount
    /\ UNCHANGED <<decimals, parsed, pureVars, ataCall, posCall, returned, executed, calls, sendVars, page>>

\* rpc() rejects and the error is caught
RpcFails ==
    /\ ui.pc = "submitting"
    /\ AtStep("rpc")
    /\ ui' = Failed(ui, <<"Simulation failed">>)
    /\ UNCHANGED <<parseVars, pureVars, ataCall, posCall, chainVars, sendVars, page>>

NextAction ==
    \/ \E text \in AmountTexts : UserTypes(text)
    \/ \E handler \in Handlers :
           \E variant \in Variants(handler), positionExists \in BOOLEAN :
               ActionStart(handler, variant, positionExists)
    \/ AwaitsAta
    \/ AtaMintInfo
    \/ AtaInfo
    \/ AtaQueryFails
    \/ ResumesAta
    \/ AwaitsPosition
    \/ PosInfo
    \/ PosQueryFails
    \/ ResumesPosition
    \/ AwaitsTokenProgram
    \/ TokenProgramArrives
    \/ TokenProgramQueryFails
    \/ Runs
    \/ Submits
    \/ SendConfirmed
    \/ \E error \in SubmitErrors : SendFails(error)
    \/ \E logs \in LogLists : SendLogsArrive(logs)
    \/ SendLogsFail
    \/ ResumesSubmit
    \/ CallsRpc
    \/ RpcConfirmed
    \/ RpcFails

SpecAction == InitAction /\ [][NextAction]_vars

(***************************************************************************)
(* User actions while other transactions create the same accounts.         *)
(***************************************************************************)
\* the handlers that resolve a token account or a position and submit
RaceHandlers == {"handleSupply", "handleCreatePosition"}

\* a supply or a position creation of the wallet runs while transactions of
\* others (or of the same user, from another page) create the token
\* accounts and the position of the wallet
NextRace ==
    \/ UserTypes(<<"7">>)
    \/ \E handler \in RaceHandlers, positionExists \in BOOLEAN :
           ActionStart(handler, "-", positionExists)
    \/ AwaitsAta
    \/ AtaMintInfo
    \/ AtaInfo
    \/ AtaQueryFails
    \/ ResumesAta
    \/ AwaitsPosition
    \/ PosInfo
    \/ PosQueryFails
    \/ ResumesPosition
    \/ Runs
    \/ Submits
    \/ SendConfirmed
    \/ \E error \in SubmitErrors : SendFails(error)
    \/ \E logs \in LogLists : SendLogsArrive(logs)
    \/ SendLogsFail
    \/ ResumesSubmit
    \/ \E mint \in Mints : ChainCreatesAta(Wallet, mint)
    \/ ChainCreatesPosition(PageMarketId, Wallet)

SpecRace == InitAction /\ [][NextRace]_vars

(***************************************************************************)
(* The admin page: wallet, read-model queries, view and in-flight marker.  *)
(***************************************************************************)
\* admin actions in flight at a time
MaxInFlight == 2

DEFAULT_PUBKEY == Key("default")

\* publicKey of useWallet() while no wallet is connected
NoKey == Key("null")

\* the wallets that connect to the page
PageWallets == {Wallet, Key("other")}

\* null: the data of a query that found nothing
Null == [exists |-> FALSE]

\* the ProtocolState account
OnChainProtocolState(owner, pendingOwner) ==
    [exists |-> TRUE, owner |-> owner, pendingOwner |-> pendingOwner]

\* what the chain holds at the ProtocolState address
ChainStates ==
    {Null} \cup {OnChainProtocolState(owner, pendingOwner) :
                    owner \in PageWallets,
                    pendingOwner \in PageWallets \cup {DEFAULT_PUBKEY}}

\* the positions of the wallet the chain holds
ChainPositions == {<<>>, <<ProgramPosition(PageMarketId, Wallet)>>}

\* program.account.protocolState.fetch(pda): the account, or an error where
\* the address holds none
fetch(state) ==
    IF state.exists THEN Return(state) ELSE Throw("Account does not exist")

\* a request the RPC node did not answer
NetworkError == Throw("failed to fetch")

\* queryFn of useProtocolState: what fetch throws is logged, null returned
useProtocolState(fetched) ==
    IF fetched.ok THEN Return(fetched.value) ELSE Return(Null)

\* queryFn of useUserPositions: what all() throws is logged, [] returned
useUserPositions(fetched) ==
    IF fetched.ok THEN Return(fetched.value) ELSE Return(<<>>)

\* a query that has not answered yet; it fetches when it is mounted
Pending(data) ==
    [status |-> "pending", fetching |-> TRUE, data |-> data,
     fetched |-> Return(data)]

\* useQuery once queryFn has settled: the data it resolved with, or the error
\* it rejected with; fetched is what the network read gave queryFn
Settled(query, outcome, fetched) ==
    IF outcome.ok
    THEN [status |-> "success", fetching |-> FALSE, data |-> outcome.value,
          fetched |-> fetched]
    ELSE [status |-> "error", fetching |-> FALSE, data |-> query.data,
          fetched |-> fetched]

\* isLoading of a query: no answer yet and a fetch under way
isLoading(query) == query.status = "pending" /\ query.fetching

\* the pending owner is taken for the owner
useIsAdmin_pendingOwner(wallet, query) ==
    IF isLoading(query) THEN "undefined"
    ELSE IF wallet.publicKey = NoKey \/ ~query.data.exists THEN "false"
    ELSE IF wallet.publicKey \in {query.data.owner, query.data.pendingOwner}
    THEN "true"
    ELSE "false"

useIsAdmin(wallet, query) ==
    IF isLoading(query) THEN "undefined"
    ELSE IF wallet.publicKey = NoKey \/ ~query.data.exists THEN "false"
    ELSE IF wallet.publicKey = query.data.owner THEN "true"
    ELSE "false"

\* the view AdminPage returns
AdminPage(wallet, query) ==
    IF ~wallet.connected THEN "connect"
    ELSE IF isLoading(query) THEN "loading"
    ELSE IF ~query.data.exists THEN "initialize"
    ELSE IF useIsAdmin(wallet, query) = "false"
    THEN IF /\ wallet.publicKey # NoKey
            /\ query.data.pendingOwner # DEFAULT_PUBKEY
            /\ wallet.publicKey = query.data.pendingOwner
         THEN "accept"
         ELSE "denied"
    ELSE "admin"

View == AdminPage(page.wallet, page.protocolState)

AdminActions ==
    {"initialize", "transfer_ownership", "accept_ownership",
     "set_fee_recipient"}

\* the button of an action is shown by the view and not disabled
Clickable(action) ==
    /\ page.pendingAction # action
    /\ CASE action = "initialize" -> View = "initialize"
         [] action = "accept_ownership" ->
                \/ View = "accept"
                \/ /\ View = "admin"
                   /\ page.wallet.publicKey
                          = page.protocolState.data.pendingOwner
         [] OTHER -> View = "admin"

\* the page is opened: no wallet, both queries mounted, nothing in flight
InitPage ==
    /\ ParseIdle
    /\ ChainIdle
    /\ SendIdle
    /\ PureIdle
    /\ UiIdle
    /\ \E state \in ChainStates, positions \in ChainPositions :
           page = [wallet |-> [connected |-> FALSE, publicKey |-> NoKey],
                   chain |-> state, chainPositions |-> positions,
                   protocolState |-> Pending(Null),
                   positions |-> [Pending(<<>>) EXCEPT !.fetching = FALSE],
                   pendingAction |-> "null",
                   running |-> [action \in AdminActions |-> 0]]

PageStep == UNCHANGED <<parseVars, chainVars, sendVars, ataCall, posCall, pureVars, ui>>

\* a wallet connects: the positions query has a new key and is enabled
WalletConnects(key) ==
    /\ ~page.wallet.connected
    /\ page' = [page EXCEPT !.wallet = [connected |-> TRUE,
                                        publicKey |-> key],
                            !.positions = Pending(<<>>)]
    /\ PageStep

WalletDisconnects ==
    /\ page.wallet.connected
    /\ page' = [page EXCEPT !.wallet = [connected |-> FALSE,
                                        publicKey |-> NoKey],
                            !.positions = [Pending(<<>>) EXCEPT
                                               !.fetching = FALSE]]
    /\ PageStep

\* a transaction of anybody changes the ProtocolState account
ChainChanges(state) ==
    /\ state # page.chain
    /\ page' = [page EXCEPT !.chain = state]
    /\ PageStep

\* the fetch of useProtocolState is answered by the RPC node
ProtocolStateArrives ==
    /\ page.protocolState.fetching
    /\ LET fetched == fetch(page.chain)
       IN  page' = [page EXCEPT
                        !.protocolState =
                            Settled(@, useProtocolState(fetched), fetched)]
    /\ PageStep

\* the fetch of useProtocolState is not answered
ProtocolStateFails ==
    /\ page.protocolState.fetching
    /\ page' = [page EXCEPT
                    !.protocolState =
                        Settled(@, useProtocolState(NetworkError),
                                NetworkError)]
    /\ PageStep

\* all(filters) of useUserPositions is answered with the wallet's positions
PositionsArrive ==
    /\ page.positions.fetching
    /\ LET fetched == Return(IF page.wallet.publicKey = Wallet
                             THEN page.chainPositions ELSE <<>>)
       IN  page' = [page EXCEPT
                        !.positions =
                            Settled(@, useUserPositions(fetched), fetched)]
    /\ PageStep

\* all(filters) of useUserPositions is not answered
PositionsFail ==
    /\ page.positions.fetching
    /\ page' = [page EXCEPT
                    !.positions =
                        Settled(@, useUserPositions(NetworkError),
                                NetworkError)]
    /\ PageStep

\* refetchInterval: a settled query fetches again
Refetches(name) ==
    /\ page[name].status # "pending"
    /\ ~page[name].fetching
    /\ page' = [page EXCEPT ![name].fetching = TRUE]
    /\ PageStep

RECURSIVE InFlightOf(_, _)
InFlightOf(running, actions) ==
    IF actions = {} THEN 0
    ELSE LET action == CHOOSE a \in actions : TRUE
         IN  running[action] + InFlightOf(running, actions \ {action})

\* the admin actions in flight
AdminInFlight == InFlightOf(page.running, AdminActions)

\* the button of an admin action is pressed: requireWallet, the marker is
\* set and the transaction submitted
AdminStarts(action) ==
    /\ Clickable(action)
    /\ page.wallet.publicKey # NoKey
    /\ AdminInFlight < MaxInFlight
    /\ page' = [page EXCEPT !.pendingAction = action,
                            !.running[action] = @ + 1]
    /\ PageStep

\* rpc() of an admin action settles: the toast is replaced and the finally
\* block clears the marker
AdminSettles(action) ==
    /\ page.running[action] > 0
    /\ page' = [page EXCEPT !.pendingAction = "null",
                            !.running[action] = @ - 1]
    /\ PageStep

NextPage ==
    \/ \E key \in PageWallets : WalletConnects(key)
    \/ WalletDisconnects
    \/ \E state \in ChainStates : ChainChanges(state)
    \/ ProtocolStateArrives
    \/ ProtocolStateFails
    \/ PositionsArrive
    \/ PositionsFail
    \/ \E name \in {"protocolState", "positions"} : Refetches(name)
    \/ \E action \in AdminActions : AdminStarts(action)
    \/ \E action \in AdminActions : AdminSettles(action)

SpecPage == InitPage /\ [][NextPage]_vars

(***************************************************************************)
(* Address derivation: properties.                                         *)
(***************************************************************************)
\* the helpers that take a market identifier, and the category seed of each
ByMarketId ==
    derived.pc = "done"
    /\ derived.helper \in {"getMarketPDA", "getPositionPDA",
                           "getLoanVaultPDA", "getCollateralVaultPDA"}

CategorySeed(helper) ==
    CASE helper = "getMarketPDA" -> "morpho_market"
      [] helper = "getPositionPDA" -> "morpho_position"
      [] helper = "getLoanVaultPDA" -> "morpho_loan_vault"
      [] helper = "getCollateralVaultPDA" -> "morpho_collateral_vault"

\* C13: a derivation handed a market identifier longer than 32 bytes fails
\* with an error and returns no address at all (none of a shortened seed in
\* particular); one handed a seed within the limit returns the address of
\* the whole seed, behind the prefix and the category seed.
C13_LongSeedFails ==
    ByMarketId =>
        IF Len(derived.entity[1]) > 32
        THEN /\ ~derived.outcome.ok
             /\ "value" \notin DOMAIN derived.outcome
        ELSE /\ derived.outcome.ok
             /\ derived.outcome.value[1] =
                    <<"pda", MORPHO_PROGRAM_ID,
                      <<"morpho_v1", CategorySeed(derived.helper)>>
                          \o derived.entity>>

\* the market address has been asked for a 33-byte identifier, and refused
C13_Witness ==
    /\ ByMarketId
    /\ derived.helper = "getMarketPDA"
    /\ Len(derived.entity[1]) = 33
    /\ ~derived.outcome.ok

\* two derivations were made and both gave an address
DerivedTwice ==
    /\ derived.pc = "done"
    /\ "before" \in DOMAIN derived
    /\ derived.outcome.ok
    /\ derived.before.outcome.ok

\* the seeds of the address a derivation gave
SeedsOf(call) == call.outcome.value[1][3]

\* C30: two derivations that differ in the helper or in the entity inputs
\* differ in their seed tuples: behind the common prefix two helpers have
\* two category seeds, and one helper handed two different entity inputs
\* has two different seed sequences.
C30_DistinctSeedTuples ==
    DerivedTwice =>
        /\ SeedsOf(derived)[1] = "morpho_v1"
        /\ SeedsOf(derived.before)[1] = "morpho_v1"
        /\ IF derived.helper # derived.before.helper
           THEN SeedsOf(derived)[2] # SeedsOf(derived.before)[2]
           ELSE derived.entity # derived.before.entity
                    => SeedsOf(derived) # SeedsOf(derived.before)

\* the position of one market was derived for two owners
C30_Witness ==
    /\ DerivedTwice
    /\ derived.helper = "getPositionPDA"
    /\ derived.before.helper = "getPositionPDA"
    /\ derived.entity[1] = derived.before.entity[1]
    /\ derived.entity[2] # derived.before.entity[2]

(***************************************************************************)
(* Market identifier computation: properties.                              *)
(***************************************************************************)
RECURSIVE Pow(_, _)
Pow(b, n) == IF n = 0 THEN 1 ELSE b * Pow(b, n - 1)

\* byte i (1 the first) of the 32-byte big-endian form of a key below 2^31
RefKeyByte(key, i) ==
    IF i <= 28 THEN 0 ELSE (key \div Pow(256, 32 - i)) % 256

\* byte i (1 the first) of the 8-byte little-endian form of a value below 2^31
RefLltvByte(lltv, i) ==
    IF i >= 5 THEN 0 ELSE (lltv \div Pow(256, i - 1)) % 256

Hashed == hashed.pc = "done"

\* the bytes handed to the hash
HashedBytes(id) == id[2]

\* C11: calculateMarketId returns the Keccak-256 hash of exactly 136 bytes:
\* collateralMint, loanMint, oracle and irm, 32 bytes each and in that order,
\* followed by the LLTV in 8 little-endian bytes; exchanging two different
\* keys changes the bytes hashed.
C11_MarketIdHashesLayout ==
    Hashed =>
        LET data == HashedBytes(hashed.outcome)
            cm == hashed.collateralMint
            lm == hashed.loanMint
            oracle == hashed.oracle
            irm == hashed.irm
            Bytes(k1, k2, k3, k4) ==
                HashedBytes(calculateMarketId(k1, k2, k3, k4, hashed.lltv))
        IN  /\ hashed.outcome[1] = "keccak256"
            /\ Len(data) = 136
            /\ \A i \in 1..32 :
                   /\ data[i] = RefKeyByte(cm, i)
                   /\ data[32 + i] = RefKeyByte(lm, i)
                   /\ data[64 + i] = RefKeyByte(oracle, i)
                   /\ data[96 + i] = RefKeyByte(irm, i)
            /\ \A i \in 1..8 : data[128 + i] = RefLltvByte(hashed.lltv, i)
            /\ cm # lm => Bytes(lm, cm, oracle, irm) # data
            /\ cm # oracle => Bytes(oracle, lm, cm, irm) # data
            /\ cm # irm => Bytes(irm, lm, oracle, cm) # data
            /\ lm # oracle => Bytes(cm, oracle, lm, irm) # data
            /\ lm # irm => Bytes(cm, irm, oracle, lm) # data
            /\ oracle # irm => Bytes(cm, lm, irm, oracle) # data

\* the identifier of a market of four keys, two of them more than one byte
\* long, and an LLTV of several bytes has been computed
C11_Witness ==
    /\ Hashed
    /\ hashed.collateralMint = 258
    /\ hashed.loanMint = 1
    /\ hashed.oracle = 2
    /\ hashed.irm = 258
    /\ hashed.lltv = 8000

(***************************************************************************)
(* Failure summary: properties.                                            *)
(***************************************************************************)
RefIsPrefix(short, long) ==
    Len(short) <= Len(long) /\ SubSeq(long, 1, Len(short)) = short

RefContains(line, needle) ==
    \E i \in 1..(Len(line) - Len(needle) + 1) :
        \A j \in 1..Len(needle) : line[i + j - 1] = needle[j]

\* the places of the lines holding a marker
RefLinesWith(logs, needle) ==
    {i \in 1..Len(logs) : RefContains(logs[i], needle)}

Least(S) == CHOOSE i \in S : \A j \in S : i <= j

RefInstructionAt(logs) ==
    RefLinesWith(logs, <<"Program log:", " ", "Instruction:">>)

RefAnchorAt(logs) == RefLinesWith(logs, <<"AnchorError">>)

RefErrorCodeAt(logs) == RefLinesWith(logs, <<"Error Code">>)

RefCustomAt(logs) == RefLinesWith(logs, <<"custom program error">>)

\* a line without its "Program log:" prefix and its surrounding blanks
RefStrip(line) ==
    RefTrim(IF Len(line) > 0 /\ line[1] = "Program log:"
            THEN SubSeq(line, 2, Len(line))
            ELSE line)

\* the summary made of the first line among instructionAt and the first
\* among errorAt
RefSummary(logs, instructionAt, errorAt) ==
    IF instructionAt = {} /\ errorAt = {} THEN NoLine
    ELSE IF errorAt = {} THEN RefStrip(logs[Least(instructionAt)])
    ELSE IF instructionAt = {} THEN RefStrip(logs[Least(errorAt)])
    ELSE RefStrip(logs[Least(instructionAt)]) \o <<" | ">>
             \o RefStrip(logs[Least(errorAt)])

\* the summary whose error line is chosen by pattern first, by place second
RefSummaryByPriority(logs) ==
    RefSummary(logs, RefInstructionAt(logs),
               IF RefAnchorAt(logs) # {} THEN RefAnchorAt(logs)
               ELSE IF RefErrorCodeAt(logs) # {} THEN RefErrorCodeAt(logs)
               ELSE RefCustomAt(logs))

Summarized == summarized.pc = "done"

\* C20 as stated: the summary is made of the line naming the instruction
\* and of the first line, in log order, matching one of the error patterns
\* (AnchorError, Error Code, custom program error); no other line is in it.
C20_Original ==
    (Summarized /\ summarized.logs # NoLogs) =>
        summarized.summary =
            RefSummary(summarized.logs, RefInstructionAt(summarized.logs),
                       RefAnchorAt(summarized.logs)
                           \cup RefErrorCodeAt(summarized.logs)
                           \cup RefCustomAt(summarized.logs))

\* C20 (amended): the summary is made of (a) the first line holding
\* "Program log: Instruction:" and (b) the first line holding "AnchorError"
\* or, when there is none, the first holding "Error Code" or, when there is
\* none either, the first holding "custom program error"; each without its
\* "Program log:" prefix and surrounding blanks, joined by " | "; there is
\* no summary when no line matches or the logs are absent.
C20_SummaryByPatternPriority ==
    Summarized =>
        summarized.summary =
            IF summarized.logs = NoLogs THEN NoLine
            ELSE RefSummaryByPriority(summarized.logs)

\* logs of two instructions whose custom-error line comes before an
\* AnchorError line have been summarized
C20_Witness ==
    /\ Summarized
    /\ summarized.logs = <<CreatePositionLine, CustomErrorLine, AnchorLine>>
    /\ summarized.summary =
           <<"Instruction:", " ", "CreatePosition", " | ", "AnchorError", " ",
             "occurred.", " ", "Error Code", ":", " ", "MarketPaused">>

(***************************************************************************)
(* Submission failures: properties.                                        *)
(***************************************************************************)
\* a call of sendInstructions has ended after sendAndConfirm failed
FailedSubmission == sendCall.pc = "done" /\ "thrown" \in DOMAIN sendCall

\* C18: within one call of sendInstructions the transaction is handed to
\* provider.sendAndConfirm at most once, and a call whose submission failed
\* ends by rejecting: the failure reaches the caller and nothing is sent
\* again.
C18_NoAutomaticRetry ==
    /\ Len(Handed) <= 1
    /\ FailedSubmission => ~sendCall.outcome.ok

\* a submission failed, its one transaction was handed over once and the
\* call rejected
C18_Witness ==
    /\ FailedSubmission
    /\ Len(Handed) = 1
    /\ ~sendCall.outcome.ok
    /\ sendCall.thrown.message = <<"User rejected the request">>

\* C19: when the failed transaction has execution logs, the error the caller
\* of sendInstructions receives is the error sendAndConfirm failed with: of
\* the same class, its message beginning with the original message and, when
\* the logs have a summary and the error is an Error, holding that summary.
C19_OriginalErrorAnnotated ==
    (/\ FailedSubmission
     /\ sendCall.thrown.logs # NoLogs
     /\ Len(sendCall.thrown.logs) > 0) =>
        /\ ~sendCall.outcome.ok
        /\ sendCall.outcome.error.class = sendCall.thrown.class
        /\ RefIsPrefix(sendCall.thrown.message,
                       sendCall.outcome.error.message)
        /\ (/\ sendCall.thrown.isError
            /\ RefSummaryByPriority(sendCall.thrown.logs) # NoLine) =>
               RefContains(sendCall.outcome.error.message,
                           RefSummaryByPriority(sendCall.thrown.logs))

(***************************************************************************)
(* User actions: properties.                                               *)
(***************************************************************************)
\* an action has been started or refused since the page was loaded
Acted == "handler" \in DOMAIN ui

UiFlag == IF Acted THEN ui.flag ELSE "none"

\* the transactions handed to provider.sendAndConfirm by the action
HandedLists == [i \in 1..Len(Handed) |-> Handed[i].instructions]

RefPda(seeds) == <<"pda", MORPHO_PROGRAM_ID, seeds>>

\* the wallet's token account of a mint held by the chain
RefAta(mint) == <<"ata", mint, Wallet, RefTokenProgram(mint)>>

RefCreateAta(mint) ==
    <<"createAssociatedTokenAccount", Wallet, RefAta(mint), Wallet, mint,
      RefTokenProgram(mint)>>

RefMarket == RefPda(<<"morpho_v1", "morpho_market", <<0, 0, 1>> >>)

RefPosition(owner) ==
    RefPda(<<"morpho_v1", "morpho_position", <<0, 0, 1>>, owner>>)

RefCreatePosition(owner) ==
    <<"createPosition", <<0, 0, 1>>, Wallet, owner, RefMarket,
      RefPosition(owner), SYSTEM_PROGRAM_ID>>

\* supply(marketId, 100000000, 0) on the accounts of the wallet
RefSupply ==
    <<"supply", <<0, 0, 1>>, <<100000000, 0>>,
      [supplier |-> Wallet,
       protocolState |-> RefPda(<<"morpho_v1", "morpho_protocol">>),
       market |-> RefMarket,
       position |-> RefPosition(Wallet),
       onBehalfOf |-> Wallet,
       supplierTokenAccount |-> RefAta(LoanMint),
       loanVault |-> RefPda(<<"morpho_v1", "morpho_loan_vault",
                              <<0, 0, 1>> >>),
       loanMint |-> LoanMint,
       tokenProgram |-> RefTokenProgram(LoanMint)]>>

\* handleSupply runs on "100.00", has found no position and is past its
\* building
SupplyOfHundred ==
    /\ Acted
    /\ ui.handler = "handleSupply"
    /\ ui.amount = <<"1", "0", "0", ".", "0", "0">>
    /\ ui.pc \in {"submitting", "success", "failed"}
    /\ posCall.pc = "done"
    /\ posCall.outcome.ok
    /\ ~posCall.held

\* C14: supplying "100.00" of the 6-decimal loan asset when the chain holds
\* no position submits exactly one transaction, whose instructions are the
\* creation of the token account if the chain held none, the creation of
\* the position and supply(marketId, 100000000, 0), in that order.
C14_SupplyTransaction ==
    SupplyOfHundred =>
        /\ Len(Handed) = 1
        /\ Handed[1].instructions =
               (IF ataCall.held THEN <<>>
                ELSE <<RefCreateAta(LoanMint)>>)
                   \o <<RefCreatePosition(Wallet), RefSupply>>

\* the supply went through with all three instructions
C14_Witness ==
    /\ SupplyOfHundred
    /\ ui.pc = "success"
    /\ ~ataCall.held
    /\ Len(Handed[1].instructions) = 3

\* the handlers whose transactions end with an instruction of the protocol
ProtocolHandlers ==
    {"handleSupply", "handleWithdraw", "handleCollateral", "handleBorrow",
     "handleRepay", "executeFlashLoan", "handleLiquidation",
     "handleClaimFees"}

ProtocolMethods ==
    {"supply", "withdraw", "supplyCollateral", "withdrawCollateral",
     "borrow", "repay", "flashLoan", "flashLoanStart", "flashLoanEnd",
     "liquidate", "claimFees"}

\* an instruction other than a creation names the account among its accounts
References(ix, account) ==
    /\ ~IsCreation(ix)
    /\ \E field \in DOMAIN ix[4] \ {"tokenProgram"} : ix[4][field] = account

\* every creation comes before the instructions referencing what it creates
CreationsFirst(tx) ==
    \A i \in 1..Len(tx), j \in 1..Len(tx) :
        (IsCreation(tx[i]) /\ References(tx[j], Created(tx[i]))) => i < j

\* the list ends with its one instruction that is no creation
OneInstructionLast(tx) ==
    /\ Len(tx) > 0
    /\ \A i \in 1..Len(tx) : IsCreation(tx[i]) <=> i < Len(tx)

\* an action of one of the handlers named by C15 is under way or over
OfListedHandler ==
    Acted /\ ui.handler \in ProtocolHandlers \cup {"handleWrapSol"}

\* C15 as stated: in every transaction assembled by supply, withdraw,
\* collateral deposit or withdraw, borrow, repay, flash loan, liquidate,
\* claim fees or wrap SOL, each creation instruction comes before the
\* protocol instruction referencing the created account, and the protocol
\* instruction is the last, every instruction before it being a creation.
C15_Original ==
    OfListedHandler =>
        \A k \in 1..Len(HandedLists) :
            /\ CreationsFirst(HandedLists[k])
            /\ OneInstructionLast(HandedLists[k])

\* C15 (amended): each creation instruction comes before every instruction
\* referencing the created account; the creations are followed by the one
\* protocol instruction, which is last, or, for wrap SOL, by the lamport
\* transfer and the sync-native instruction, in that order.
C15_CreationsPrecede ==
    OfListedHandler =>
        \A k \in 1..Len(HandedLists) :
            LET tx == HandedLists[k]
            IN  /\ CreationsFirst(tx)
                /\ IF ui.handler = "handleWrapSol"
                   THEN /\ Len(tx) >= 2
                        /\ tx[Len(tx) - 1][1] = "transfer"
                        /\ tx[Len(tx)][1] = "syncNative"
                        /\ \A i \in 1..(Len(tx) - 2) : IsCreation(tx[i])
                   ELSE /\ OneInstructionLast(tx)
                        /\ tx[Len(tx)][1] \in ProtocolMethods

\* a borrow was submitted behind the creations of the token account and of
\* the position, both of which it references
C15_Witness ==
    /\ Acted
    /\ ui.handler = "handleBorrow"
    /\ Len(Handed) = 1
    /\ Len(Handed[1].instructions) = 3
    /\ IsCreateAta(Handed[1].instructions[1])
    /\ IsCreatePosition(Handed[1].instructions[2])
    /\ References(Handed[1].instructions[3],
                  Created(Handed[1].instructions[1]))
    /\ References(Handed[1].instructions[3],
                  Created(Handed[1].instructions[2]))

\* the state of the action, in the terms of the state machine
Phase ==
    CASE ui.pc \in {"idle", "refused", "info"} -> "Idle"
      [] ui.pc \in {"building", "awaiting"} -> "Building"
      [] ui.pc = "submitting" -> "Submitting"
      [] ui.pc = "success" -> "Success"
      [] ui.pc = "failed" -> "Failed"

\* a transaction of the action has been handed over for submission
Submitted ==
    \E i \in 1..Len(wire) : wire[i].call \in {"sendAndConfirm", "rpc"}

HasStep(kind) ==
    \E i \in 1..Len(Steps(ui.handler, ui.variant)) :
        Steps(ui.handler, ui.variant)[i][1] = kind

\* the prerequisites the handler resolves are resolved and the amount it
\* reads is parsed
PrerequisitesDone ==
    /\ HasStep("getOrCreateAtaIx") =>
           ataCall.pc = "done" /\ ataCall.outcome.ok
    /\ HasStep("ensurePositionIx") =>
           posCall.pc = "done" /\ posCall.outcome.ok
    /\ ReadsAmount(ui.handler) =>
           parsed # NotParsed /\ parsed.outcome.ok
    /\ \A i \in 1..Len(ui.rest) :
           ui.rest[i][1] \in {"sendInstructions", "rpc"}

Toasted(toast) == \E i \in 1..Len(ui.toasts) : ui.toasts[i] = toast

StateMachineHolds ==
    Acted =>
        /\ Submitted => PrerequisitesDone
        /\ Phase = "Building" => ~Submitted
        /\ Phase = "Submitting" => Submitted
        /\ Phase = "Success" =>
               /\ Submitted
               /\ ui.description = <<"signature">>
               /\ Len(Handed) > 0 =>
                      sendCall.pc = "done"
                          /\ sendCall.outcome = Return("signature")
        /\ Toasted("success") <=> Phase = "Success"
        /\ Toasted("error") /\ ui.pc # "refused" <=> Phase = "Failed"

\* the steps the state machine draws: Idle to Building, Building to
\* Submitting, Submitting to Success or Failed, and from either end back to
\* Idle or into the next action
DrawnSteps ==
    {<<"Idle", "Idle">>, <<"Idle", "Building">>,
     <<"Building", "Building">>, <<"Building", "Submitting">>,
     <<"Submitting", "Submitting">>, <<"Submitting", "Success">>,
     <<"Submitting", "Failed">>,
     <<"Success", "Success">>, <<"Success", "Idle">>,
     <<"Success", "Building">>,
     <<"Failed", "Failed">>, <<"Failed", "Idle">>,
     <<"Failed", "Building">>}

StateMachineDrawn == <<Phase, Phase'>> \in DrawnSteps

\* the drawn steps, and the two ways out of Building without a submission:
\* the catch block, and the early return of handleCreatePosition
StateMachineSteps ==
    <<Phase, Phase'>> \in
        DrawnSteps \cup {<<"Building", "Failed">>, <<"Building", "Idle">>}

\* C16 as stated: an action goes from Idle to Building, from Building to
\* Submitting and from Submitting to Success or to Failed, by these steps
\* only; a transaction is handed over only once every prerequisite of the
\* action is resolved and its amount parsed; Success is reached only with
\* the signature a submission returned; an action never shows both the
\* success and the error toast.
C16_Original ==
    [](StateMachineHolds) /\ [][StateMachineDrawn]_vars

\* C16 (amended): as stated, except that an action whose prerequisite
\* resolution or amount parsing fails goes from Building to Failed without
\* a submission, and that creating a position that exists goes from
\* Building back to Idle.
C16_ActionStateMachine ==
    [](StateMachineHolds) /\ [][StateMachineSteps]_vars

\* a liquidation went through
C16_Witness ==
    /\ Acted
    /\ ui.handler = "handleLiquidation"
    /\ ui.pc = "success"
    /\ sendCall.outcome = Return("signature")

\* every step of a handler under way and of the calls it awaits
Progress ==
    \/ AwaitsAta
    \/ AtaMintInfo
    \/ AtaInfo
    \/ AtaQueryFails
    \/ ResumesAta
    \/ AwaitsPosition
    \/ PosInfo
    \/ PosQueryFails
    \/ ResumesPosition
    \/ AwaitsTokenProgram
    \/ TokenProgramArrives
    \/ TokenProgramQueryFails
    \/ Runs
    \/ Submits
    \/ SendConfirmed
    \/ \E error \in SubmitErrors : SendFails(error)
    \/ \E logs \in LogLists : SendLogsArrive(logs)
    \/ SendLogsFail
    \/ ResumesSubmit
    \/ CallsRpc
    \/ RpcConfirmed
    \/ RpcFails

\* the page is loaded on a chain that may hold the wallet's loan token
\* account and position already
InitActionFair ==
    /\ ParseIdle
    /\ \E program \in TokenPrograms :
           \E held \in SUBSET {getAssociatedTokenAddressSync(
                                   LoanMint, Wallet, TOKEN_PROGRAM_ID),
                               ProgramPosition(PageMarketId, Wallet)} :
               accounts = [a \in Addresses |->
                              IF a = LoanMint THEN TOKEN_PROGRAM_ID
                              ELSE IF a = CollateralMint THEN program
                              ELSE IF a \in held
                              THEN IF a[1] = "ata" THEN TOKEN_PROGRAM_ID
                                   ELSE MORPHO_PROGRAM_ID
                              ELSE NoAccount]
    /\ ataCall = NoCall
    /\ posCall = NoCall
    /\ returned = {}
    /\ executed = {}
    /\ calls = 0
    /\ SendIdle
    /\ PureIdle
    /\ UiIdle
    /\ PageIdle

\* the first action of the page, from the typing of its amount to its end
NextActionFair == (ui = NoCall \/ ui.pc \notin Resting) /\ NextAction

\* the handler runs on, and every call it awaits is answered or fails
SpecActionFair ==
    InitActionFair /\ [][NextActionFair]_vars /\ WF_vars(Progress)

InFlight == ui.pc \notin Resting

AtRest == ui.pc \in Resting /\ UiFlag = "none"

\* C17: an action under way ends, and once it has ended its in-flight flag
\* is cleared, after a success as after a failure.
C17_ActionReturnsToIdle == InFlight ~> AtRest

\* a withdrawal has failed and its flag is cleared
C17_Witness ==
    /\ Acted
    /\ ui.handler = "handleWithdraw"
    /\ ui.pc = "failed"
    /\ ui.flag = "none"
    /\ Len(Handed) = 1

\* the action under way or over has asked the network for an account
NetworkRead ==
    \/ ataCall.pc # "idle" /\ Len(ataCall.reads) > 0
    \/ posCall.pc # "idle" /\ Len(posCall.reads) > 0
    \/ ui.atas # <<>>

\* the action ended on the error of one of the two amount parsers
ValidationFailed ==
    /\ Acted
    /\ ui.pc = "failed"
    /\ ui.description \in {<<"Invalid amount format">>,
                           <<"Invalid integer amount">>}

\* C21: an action that fails on a malformed amount has submitted no
\* transaction and has sent nothing to the network, no query for an account
\* either: the error is reported before anything else is done.
C21_ValidationBeforeNetwork ==
    ValidationFailed => wire = <<>> /\ ~NetworkRead

\* the action showed its loading toast and is over
LoadedAndOver == Acted /\ ui.pc \in Resting /\ ui.toasts # <<>>
                     /\ ui.toasts[1] = "loading"

\* the one toast that took the place of the loading toast
Replacement == ui.toasts[2]

\* the loading toast is in place for as long as the action is under way
LoadingWhileUnderWay ==
    (Acted /\ ui.pc \notin Resting) => ui.toasts = <<"loading">>

\* C22 as stated: the loading toast of an action is replaced on completion
\* by exactly one toast, a success carrying the signature or an error
\* carrying the reason, and by no other kind.
C22_Original ==
    /\ LoadingWhileUnderWay
    /\ LoadedAndOver =>
           /\ Len(ui.toasts) = 2
           /\ Replacement \in {"success", "error"}
           /\ Replacement = "success" => ui.description = <<"signature">>
           /\ Replacement = "error" =>
                  ui.description # <<>> /\ Phase = "Failed"

\* C22 (amended): as stated, except that creating a position that exists
\* already replaces the loading toast by an info toast, with no signature
\* and no reason.
C22_LoadingReplacedOnce ==
    /\ LoadingWhileUnderWay
    /\ LoadedAndOver =>
           /\ Len(ui.toasts) = 2
           /\ Replacement \in {"success", "error", "info"}
           /\ Replacement = "success" => ui.description = <<"signature">>
           /\ Replacement = "error" =>
                  ui.description # <<>> /\ Phase = "Failed"
           /\ Replacement = "info" =>
                  /\ ui.handler = "handleCreatePosition"
                  /\ posCall.held
                  /\ ui.description = <<>>
                  /\ wire = <<>>

\* the position existed and the info toast took the place of the loading one
C22_Witness ==
    /\ LoadedAndOver
    /\ ui.handler = "handleCreatePosition"
    /\ ui.toasts = <<"loading", "info">>

\* Withdraw, Repay and Withdraw-Collateral
NeedsPosition(handler, variant) ==
    \/ handler \in {"handleWithdraw", "handleRepay"}
    \/ handler = "handleCollateral" /\ variant = "withdraw"

\* one of the three handlers is invoked while the cached list holds no
\* position of the wallet: it returns at once, with the error toast if an
\* amount is entered, its flag unset, nothing asked of the network
StartsWithoutPosition ==
    \A handler \in Handlers :
        \A variant \in Variants(handler) :
            (NeedsPosition(handler, variant)
                 /\ ActionStart(handler, variant, FALSE)) =>
                /\ ui'.pc = "refused"
                /\ ui'.flag = "none"
                /\ amount # <<>> => ui'.toasts = <<"error">>
                /\ wire' = <<>>
                /\ ataCall' = NoCall
                /\ posCall' = NoCall

\* a handler that returned early stays without request and without flag
RefusedQuiet ==
    (Acted /\ ui.pc = "refused") =>
        /\ ui.flag = "none"
        /\ wire = <<>>
        /\ ~NetworkRead
        /\ ui.rest = <<>>

LastOf(tx) == tx[Len(tx)]

\* a withdrawal or a repayment is under way or over
ByAssetsOrShares == Acted /\ ui.handler \in {"handleWithdraw", "handleRepay"}

\* C28: the withdraw or repay instruction of every transaction handed over
\* carries two amounts, assets and shares: in the mode 'assets' the shares
\* are 0, in the mode 'shares' the assets are 0, whatever the text of the
\* amount field and whatever mode was chosen for the actions before.
C28_AssetsOrShares ==
    ByAssetsOrShares =>
        \A k \in 1..Len(HandedLists) :
            LET ix == LastOf(HandedLists[k])
            IN  /\ ix[1] = (IF ui.handler = "handleWithdraw" THEN "withdraw"
                            ELSE "repay")
                /\ Len(ix[3]) = 2
                /\ ui.variant = "assets" => ix[3][2] = 0
                /\ ui.variant = "shares" =>
                       ix[3][1] = 0
                           /\ ix[3][2] = 7
                /\ ix[3][1] = 0 \/ ix[3][2] = 0

\* 7 shares were withdrawn after an action in the other mode
C28_Witness ==
    /\ ByAssetsOrShares
    /\ ui.handler = "handleWithdraw"
    /\ ui.variant = "shares"
    /\ ui.pc = "success"
    /\ Len(Handed) = 1
    /\ LastOf(Handed[1].instructions)[3] = <<0, 7>>

\* Create Market has submitted its transaction
CreateMarketSubmitted ==
    /\ ui # NoCall
    /\ ui.handler = "handleCreateMarket"
    /\ wire # <<>>

\* C26: whenever Create Market submits a createMarket transaction, the LLTV
\* the market identifier was computed from (Number of the trimmed text, made
\* a BN) is the LLTV passed as the argument of the instruction
\* (parseIntegerAmount of the same text): the market account of the
\* instruction is the address derived from the identifier of the argument.
C26_SameLltv ==
    CreateMarketSubmitted =>
        \A i \in 1..Len(wire) :
            LET ix == wire[i].instructions[1]
            IN  /\ ix[1] = "createMarket"
                /\ Len(ix[3]) = 1
                /\ ui.marketId = FormMarketId(ix[3][1])
                /\ ix[4].market = getMarketPDA(FormMarketId(ix[3][1])).value[1]

\* a market of LLTV 7 was created from the text "7"
C26_Witness ==
    /\ CreateMarketSubmitted
    /\ ui.pc = "success"
    /\ ui.amount = <<"7">>
    /\ wire[1].instructions[1][3] = <<7>>
    /\ ui.marketId = FormMarketId(7)

\* a transaction is handed to the network in this step
SubmittedNow ==
    /\ Len(wire') > Len(wire)
    /\ wire'[Len(wire')].call = "sendAndConfirm"

\* the accounts the creation instructions of a transaction create
CreatedBy(tx) == {Created(tx[i]) : i \in {j \in 1..Len(tx) : IsCreation(tx[j])}}

\* every account the submitted transaction creates is absent from the chain
\* at the moment of the submission
SubmitsFresh ==
    SubmittedNow =>
        \A a \in CreatedBy(wire'[Len(wire')].instructions) : ~HoldsAccount(a)

\* C25 as stated: a submitted transaction holds a create instruction only
\* for an account that does not exist on chain at the moment of submission,
\* whatever other transactions create between the query and the submission.
C25_Original == [][SubmitsFresh]_vars

\* an existence query is answered in this step: it returns a creation
\* instruction exactly if the chain holds no account at the address now
QueryDecides ==
    /\ (ataCall.pc = "ata" /\ ataCall'.pc = "done" /\ ataCall'.outcome.ok) =>
           (IsCreateAta(ataCall'.outcome.value.instruction)
                <=> ~HoldsAccount(ataCall.ata))
    /\ (posCall.pc = "info" /\ posCall'.pc = "done" /\ posCall'.outcome.ok) =>
           (IsCreatePosition(posCall'.outcome.value.instruction)
                <=> ~HoldsAccount(posCall.positionPda))

\* the creation instructions on the wire are those the queries of this
\* action returned
CreationsFromQueries ==
    \A k \in 1..Len(Handed) :
        \A i \in 1..Len(Handed[k].instructions) :
            IsCreation(Handed[k].instructions[i]) =>
                \E j \in 1..Len(ui.ixs) : ui.ixs[j] = Handed[k].instructions[i]

\* C25 (amended): a submitted transaction holds a create instruction only
\* for an account that did not exist on chain when the existence query of
\* this action was answered; an account created by another transaction
\* between the answer and the submission leaves the create instruction in
\* the transaction.
C25_FreshAtQuery == [](CreationsFromQueries) /\ [][QueryDecides]_vars

\* a transaction creating the wallet's loan token account is in flight, the
\* query found no account there, and the chain holds the account already
C25_Witness ==
    /\ sendCall.pc = "sending"
    /\ ataCall.pc = "done"
    /\ ataCall.outcome.ok
    /\ ~ataCall.held
    /\ ataCall.outcome.value.address \in CreatedBy(wire[Len(wire)].instructions)
    /\ HoldsAccount(ataCall.outcome.value.address)

(***************************************************************************)
(* The admin page: properties.                                             *)
(***************************************************************************)
ReadModelQueries == {"protocolState", "positions"}

\* the last network read of a query was not answered
ReadFailed(query) == ~query.fetched.ok /\ query.fetched = NetworkError

\* C23: a failed network read is never turned into a normal result: a
\* read-model query whose last read of the chain failed is in the error
\* state, it has not resolved with data.
C23_ErrorsBubble ==
    \A name \in ReadModelQueries :
        ReadFailed(page[name]) => page[name].status = "error"

\* C24: in-flight actions do not interfere through shared state: while an
\* action started on the page is in flight, its in-flight marker is set (its
\* button disabled), whatever other action was started or has completed
\* meanwhile.
C24_MarkerHeld ==
    \A action \in AdminActions :
        page.running[action] > 0 => page.pendingAction = action

\* the connected wallet is the owner of the loaded protocol state
OwnerConnected ==
    /\ page.wallet.connected
    /\ ~isLoading(page.protocolState)
    /\ page.protocolState.data.exists
    /\ page.wallet.publicKey = page.protocolState.data.owner

\* C29: the admin panel is rendered exactly if a wallet is connected, the
\* protocol state has finished loading and exists, and the wallet is its
\* owner; otherwise the view is the connect, loading, initialize, ownership
\* acceptance or access denied one.
C29_AdminOnlyOwner ==
    /\ View = "admin" <=> OwnerConnected
    /\ ~OwnerConnected =>
           View \in {"connect", "loading", "initialize", "accept", "denied"}
    /\ View = "connect" <=> ~page.wallet.connected

\* the owner sees the admin panel while the chain has moved on to another
\* owner and a refetch is under way
C29_Witness ==
    /\ View = "admin"
    /\ page.wallet.publicKey = Wallet
    /\ page.protocolState.fetching
    /\ page.chain.exists
    /\ page.chain.owner # Wallet

=============================================================================
